---------------------------- MODULE Spec2Model ----------------------------
(***************************************************************************)
(* A model of qualmap's phrase-extraction and ranking pipeline             *)
(* (src/utils/nlpProcessor.js): extractPhrases, isSignificantPhrase,       *)
(* countPhraseFrequencies, generateWordCloudData, processTextsToWordCloud. *)
(*                                                                         *)
(* JavaScript values are records tagged by field t ("null", "undefined",   *)
(* "number", "NaN", "string", "array", "object").  A string is a sequence  *)
(* of tokens: words and whitespace characters, so that lower-casing,       *)
(* trimming, String.includes(' ') and the tagger's matches are computed,   *)
(* not assumed.  An object used as a map is the sequence of its entries in *)
(* property order (insertion order for the non-numeric keys used here).    *)
(*                                                                         *)
(* Also modelled: the district utilities of src/utils/postcodeExtractor.js *)
(* (postcodes as strings of characters) and generateWordCloud of           *)
(* src/components/WordCloud/WordCloudPanel.jsx.  Each utility called on    *)
(* its own has a specification of its own (SpecPhrase, SpecDistrict,       *)
(* SpecPostcodes, SpecCloud) over the variables args and ret.              *)
(*                                                                         *)
(* MapDataProvider (src/contexts/MapDataContext.jsx, the definition in     *)
(* force) is modelled with its reducer, its batched dispatches, the        *)
(* loadData effect and the key handler (SpecLoad, SpecSelection,           *)
(* SpecReducer), and the drill-down panel NgramDataPanel with the word     *)
(* clouds' onClick (SpecDrill).                                            *)
(***************************************************************************)
EXTENDS Integers, Sequences, FiniteSets, TLC

VARIABLES
    texts,        \* argument of countPhraseFrequencies / processTextsToWordCloud
    i,            \* position of texts.forEach (1-based)
    phraseCount,  \* the local phraseCount object being filled
    frequencies,  \* value returned by countPhraseFrequencies / argument of generateWordCloudData
    limit,        \* the limit argument (Undefined when omitted)
    result,       \* value returned by generateWordCloudData / processTextsToWordCloud
    pc,           \* "call" | "forEach" | "counted" | "done" | "thrown" | "returned"
    args,         \* arguments of a utility function called on its own
    ret,          \* the value that call returned
    state,        \* MapDataProvider: the reducer's state as of the last render
    ngram,        \* MapDataProvider: selectedNgram and ngramData of the state
    queue,        \* actions dispatched since the last render, in dispatch order
    load,         \* the loadData effect: its position, whether it caught an
                  \* error, its combinedData, and loadGeoJSON's
                  \* uniqueDistricts and areaGroups
    log           \* the tag last written by the word cloud's onClick

vars == <<texts, i, phraseCount, frequencies, limit, result, pc, args, ret,
          state, ngram, queue, load, log>>

\* The variables of the utility functions and those of the provider.
utilVars == <<texts, i, phraseCount, frequencies, limit, result, pc, args, ret>>

providerVars == <<state, ngram, queue, load, log>>

---------------------------------------------------------------------------
(* Bounds of the model *)

MaxTexts == 3

MaxLimit == 3

MaxEntries == 3

MaxWeight == 3

(* generateWordCloudData(phraseCount, limit = 50) *)
DefaultLimit == 50

---------------------------------------------------------------------------
(* JavaScript values *)

Null == [t |-> "null"]

Undefined == [t |-> "undefined"]

NaN == [t |-> "NaN"]

Num(n) == [t |-> "number", n |-> n]

Str(s) == [t |-> "string", s |-> s]

Arr(items) == [t |-> "array", items |-> items]

Obj(entries) == [t |-> "object", entries |-> entries]

Bool(b) == [t |-> "boolean", b |-> b]

\* !v
Falsy(v) ==
    \/ v.t \in {"null", "undefined", "NaN"}
    \/ v.t = "boolean" /\ ~v.b
    \/ v.t = "number" /\ v.n = 0
    \/ v.t = "string" /\ v.s = <<>>

\* typeof v
TypeOf(v) ==
    CASE v.t \in {"number", "NaN"} -> "number"
      [] v.t = "string" -> "string"
      [] v.t = "undefined" -> "undefined"
      [] v.t = "boolean" -> "boolean"
      [] OTHER -> "object"

\* Array.isArray(v)
IsArray(v) == v.t = "array"

Min(a, b) == IF a <= b THEN a ELSE b

Max(a, b) == IF a >= b THEN a ELSE b

---------------------------------------------------------------------------
(* MapDataProvider (src/contexts/MapDataContext.jsx): the state a provider   *)
(* is constructed with.                                                      *)

initialState ==
    [dataState |-> <<>>,
     postcodeGeoJSON |-> Null,
     selectedAreas |-> Arr(<<>>),
     focusedArea |-> Null,
     dataLoaded |-> Bool(FALSE),
     showKeyboardHelp |-> Bool(FALSE),
     activeTab |-> Str(<<"selections">>)]

\* The two drill-down fields of the initial state.
initialNgramState == [selectedNgram |-> Null, ngramData |-> Null]

\* The loadData effect before it has run.
initialLoad ==
    [pc |-> "mount", error |-> FALSE, combinedData |-> Undefined,
     uniqueDistricts |-> Undefined, areaGroups |-> Undefined]

\* The provider before its first effect has run: nothing dispatched, nothing
\* clicked.
ProviderInit ==
    /\ state = initialState
    /\ ngram = initialNgramState
    /\ queue = <<>>
    /\ load = initialLoad
    /\ log = Undefined

---------------------------------------------------------------------------
(* Strings as token sequences *)

Whitespace == {" ", "\t"}

\* String.prototype.toLowerCase, token by token
LowerToken(tok) ==
    CASE tok \in {"Digital", "DIGITAL"} -> "digital"
      [] tok \in {"Skills", "SKILLS"} -> "skills"
      [] tok = "Acme" -> "acme"
      [] tok = "US" -> "us"
      [] tok = "Reading" -> "reading"
      [] tok \in {"The", "THE"} -> "the"
      [] tok = "AND" -> "and"
      [] tok \in {"Support", "SUPPORT"} -> "support"
      [] OTHER -> tok

ToLowerCase(s) == [k \in 1..Len(s) |-> LowerToken(s[k])]

RECURSIVE TrimStart(_)
TrimStart(s) ==
    IF s # <<>> /\ Head(s) \in Whitespace THEN TrimStart(Tail(s)) ELSE s

RECURSIVE TrimEnd(_)
TrimEnd(s) ==
    IF s # <<>> /\ s[Len(s)] \in Whitespace
    THEN TrimEnd(SubSeq(s, 1, Len(s) - 1))
    ELSE s

\* String.prototype.trim
Trim(s) == TrimEnd(TrimStart(s))

\* phrase.includes(' ')
IncludesSpace(s) == \E k \in 1..Len(s) : s[k] = " "

---------------------------------------------------------------------------
(* The tagger (compromise): nlp(text) splits the text into terms at         *)
(* whitespace and tags each term; a match is a run of terms and its text is *)
(* the substring from its first term to its last (interior whitespace       *)
(* kept, as out('array') joins pre + text + post of the terms and trims).   *)

\* The lexicon: the tags of a term.
Tags(tok) ==
    CASE tok \in {"Digital", "digital", "DIGITAL", "online"} -> {"Adjective"}
      [] tok \in {"skills", "Skills", "SKILLS", "training", "service", "services",
                  "support", "Support", "SUPPORT", "help", "need", "needs", "use"}
            -> {"Noun"}
      [] tok \in {"providing", "reading", "helped", "helping", "needed", "used",
                  "using", "provide", "provides", "provided", "supports", "supported"}
            -> {"Verb"}
      [] tok \in {"Acme", "acme"} -> {"Noun", "Organization"}
      [] tok \in {"US", "Reading"} -> {"Noun", "Place"}
      [] OTHER -> {}

\* A string the tagger cannot process: nlp(text) throws on it.
Unprocessable == "\\uDC00"

NlpThrows(s) == \E k \in 1..Len(s) : s[k] = Unprocessable

\* Position of the first term after position k, 0 when there is none.
NextTerm(s, k) ==
    LET later == {j \in (k + 1)..Len(s) : s[j] \notin Whitespace}
    IN  IF later = {} THEN 0 ELSE CHOOSE j \in later : \A m \in later : j <= m

\* Last term of the longest run of terms tagged tag that starts at term k.
RECURSIVE RunEnd(_, _, _)
RunEnd(s, k, tag) ==
    LET j == NextTerm(s, k)
    IN  IF j # 0 /\ tag \in Tags(s[j]) THEN RunEnd(s, j, tag) ELSE k

\* Where a match of the pattern that starts at term k ends, 0 when none does.
MatchEnd(pattern, s, k) ==
    CASE pattern = "#Adjective+ #Noun+" ->
            IF "Adjective" \in Tags(s[k])
            THEN LET n == NextTerm(s, RunEnd(s, k, "Adjective"))
                 IN  IF n # 0 /\ "Noun" \in Tags(s[n]) THEN RunEnd(s, n, "Noun") ELSE 0
            ELSE 0
      [] pattern = "#Verb #Noun+" ->
            IF "Verb" \in Tags(s[k])
            THEN LET n == NextTerm(s, k)
                 IN  IF n # 0 /\ "Noun" \in Tags(s[n]) THEN RunEnd(s, n, "Noun") ELSE 0
            ELSE 0
      [] pattern = "organizations" ->
            IF "Organization" \in Tags(s[k]) THEN RunEnd(s, k, "Organization") ELSE 0
      [] pattern = "topics" ->
            IF "Place" \in Tags(s[k]) THEN RunEnd(s, k, "Place")
            ELSE IF "Organization" \in Tags(s[k]) THEN RunEnd(s, k, "Organization")
            ELSE 0

\* doc.match(pattern): the matches from position k on, left to right, as
\* <<first, last>> positions; matches do not overlap.
RECURSIVE MatchFrom(_, _, _)
MatchFrom(pattern, s, k) ==
    IF k > Len(s) THEN <<>>
    ELSE IF s[k] \in Whitespace THEN MatchFrom(pattern, s, k + 1)
    ELSE LET e == MatchEnd(pattern, s, k)
         IN  IF e = 0 THEN MatchFrom(pattern, s, k + 1)
             ELSE <<<<k, e>>>> \o MatchFrom(pattern, s, e + 1)

Match(pattern, s) == MatchFrom(pattern, s, 1)

\* .out('array')
OutArray(s, spans) == [k \in 1..Len(spans) |-> SubSeq(s, spans[k][1], spans[k][2])]

\* .found
Found(pattern, s) == Match(pattern, s) # <<>>

Patterns == <<"#Adjective+ #Noun+", "#Verb #Noun+", "organizations", "topics">>

---------------------------------------------------------------------------
(* extractPhrases *)

\* Variant of Unique: the array as it is, [...phrases], no Set.
UniqueNot(seq) == seq

\* [...new Set(array)]: the first occurrence of every element, in order.
RECURSIVE Unique(_)
Unique(seq) ==
    IF seq = <<>> THEN <<>>
    ELSE LET init == Unique(SubSeq(seq, 1, Len(seq) - 1))
             last == seq[Len(seq)]
         IN  IF \E k \in 1..Len(init) : init[k] = last THEN init ELSE Append(init, last)

\* The phrases array before de-duplication.
RawPhrases(s) ==
    LET all == OutArray(s, Match(Patterns[1], s)) \o OutArray(s, Match(Patterns[2], s))
               \o OutArray(s, Match(Patterns[3], s)) \o OutArray(s, Match(Patterns[4], s))
    IN  [k \in 1..Len(all) |-> ToLowerCase(all[k])]

\* extractPhrases(text), for a text on which the tagger does not throw.
ExtractPhrases(text) ==
    IF Falsy(text) \/ TypeOf(text) # "string" THEN <<>>
    ELSE Unique(RawPhrases(text.s))

---------------------------------------------------------------------------
(* isSignificantPhrase *)

COMMON_WORDS ==
    {"the", "be", "to", "of", "and", "a", "in", "that", "have", "i",
     "it", "for", "not", "on", "with", "he", "as", "you", "do", "at",
     "this", "but", "his", "by", "from", "they", "we", "say", "her",
     "she", "or", "an", "will", "my", "one", "all", "would", "there",
     "their", "what", "so", "up", "out", "if", "about", "who", "get",
     "which", "go", "me", "when", "make", "can", "like", "time", "no",
     "just", "him", "know", "take", "people", "into", "year", "your",
     "good", "some", "could", "them", "see", "other", "than", "then",
     "now", "look", "only", "come", "its", "over", "think", "also",
     "back", "after", "use", "two", "how", "our", "work", "first",
     "well", "way", "even", "new", "want", "because", "any", "these",
     "give", "day", "most", "us"}

\* The words that the exported COMMON_WORDS of config/constants.js lists after
\* the common English words: the service jargon.  isSignificantPhrase does not
\* read that list; it has the list above.
DOMAIN_WORDS ==
    {"service", "services", "digital", "online", "help", "helped", "helping",
     "need", "needs", "needed", "use", "used", "using", "provide", "provides",
     "provided", "support", "supports", "supported"}

\* COMMON_WORDS.includes(normalized): the whole string is one listed word.
IsCommonWord(s) == Len(s) = 1 /\ s[1] \in COMMON_WORDS

\* Variant of IsSignificantPhrase: normalized = phrase.trim(), the case kept.
IsSignificantPhraseNoLowerCase(phrase) ==
    IF phrase = <<>> THEN FALSE
    ELSE LET normalized == Trim(phrase)
         IN  IF IsCommonWord(normalized) THEN FALSE
             ELSE \E k \in 1..Len(Patterns) : Found(Patterns[k], normalized)

\* Variant of IsSignificantPhrase: the tagger is given the phrase as it came,
\* nlp(phrase), instead of the normalised phrase.
IsSignificantPhraseTagOriginal(phrase) ==
    IF phrase = <<>> THEN FALSE
    ELSE LET normalized == Trim(ToLowerCase(phrase))
         IN  IF IsCommonWord(normalized) THEN FALSE
             ELSE \E k \in 1..Len(Patterns) : Found(Patterns[k], phrase)

\* isSignificantPhrase(phrase) for a string phrase given as its tokens.
IsSignificantPhrase(phrase) ==
    IF phrase = <<>> THEN FALSE
    ELSE LET normalized == Trim(ToLowerCase(phrase))
         IN  IF IsCommonWord(normalized) THEN FALSE
             ELSE \E k \in 1..Len(Patterns) : Found(Patterns[k], normalized)

\* isSignificantPhrase(phrase) for any value: the guard
\* !phrase || typeof phrase !== 'string', then the above.
IsSignificant(phrase) ==
    IF Falsy(phrase) \/ TypeOf(phrase) # "string" THEN Bool(FALSE)
    ELSE Bool(IsSignificantPhrase(phrase.s))

---------------------------------------------------------------------------
(* countPhraseFrequencies *)

\* const weight = phrase.includes(' ') ? 2 : 1
Weight(phrase) == IF IncludesSpace(phrase) THEN 2 ELSE 1

\* Variant of Weight: a multi-word phrase is any phrase with interior
\* whitespace, whichever the character.
WeightAnyWhitespace(phrase) ==
    IF \E k \in 1..Len(phrase) : phrase[k] \in Whitespace THEN 2 ELSE 1

HasKey(entries, key) == \E k \in 1..Len(entries) : entries[k].value = key

\* Variant of AddWeight: phraseCount[phrase] = weight, the running total lost.
AddWeightOverwrite(entries, phrase, weight) ==
    IF \E k \in 1..Len(entries) : entries[k].value = phrase
    THEN [k \in 1..Len(entries) |->
            IF entries[k].value = phrase
            THEN [entries[k] EXCEPT !.count = weight]
            ELSE entries[k]]
    ELSE Append(entries, [value |-> phrase, count |-> weight])

\* phraseCount[phrase] = (phraseCount[phrase] || 0) + weight: an existing
\* property keeps its place, a new one is added after the others.
AddWeight(entries, phrase, weight) ==
    IF HasKey(entries, phrase)
    THEN [k \in 1..Len(entries) |->
            IF entries[k].value = phrase
            THEN [entries[k] EXCEPT !.count = @ + weight]
            ELSE entries[k]]
    ELSE Append(entries, [value |-> phrase, count |-> weight])

\* Variant of ForEachPhrase: every extracted phrase is counted, the
\* isSignificantPhrase test left out.
RECURSIVE ForEachPhraseAll(_, _)
ForEachPhraseAll(entries, phrases) ==
    IF phrases = <<>> THEN entries
    ELSE ForEachPhraseAll(AddWeight(entries, Head(phrases), Weight(Head(phrases))),
                          Tail(phrases))

\* phrases.forEach(phrase => { if (isSignificantPhrase(phrase)) ... })
RECURSIVE ForEachPhrase(_, _)
ForEachPhrase(entries, phrases) ==
    IF phrases = <<>> THEN entries
    ELSE ForEachPhrase(
            IF IsSignificantPhrase(Head(phrases))
            THEN AddWeight(entries, Head(phrases), Weight(Head(phrases)))
            ELSE entries,
            Tail(phrases))

\* The callback of texts.forEach, for a text on which the tagger does not throw.
ForEachBody(entries, text) ==
    IF Falsy(text) THEN entries
    ELSE ForEachPhrase(entries, ExtractPhrases(text))

\* Whether the callback throws on this text: nlp(text) is reached and throws.
BodyThrows(text) ==
    /\ ~Falsy(text)
    /\ TypeOf(text) = "string"
    /\ NlpThrows(text.s)

\* Variant of NextIndex: the loop is left at the first text that is skipped
\* (a return that ends the iteration instead of one callback).
NextIndexStopAtFalsy(k, text) == IF Falsy(text) THEN k + MaxTexts + 1 ELSE k + 1

\* The position texts.forEach visits after the callback returned at position k.
NextIndex(k, text) == k + 1

\* texts.forEach(callback), run to its end on texts the tagger can process.
RECURSIVE ForEachFold(_, _)
ForEachFold(entries, items) ==
    IF items = <<>> THEN entries
    ELSE ForEachFold(ForEachBody(entries, Head(items)), Tail(items))

\* countPhraseFrequencies(texts) as a function of its argument.
CountPhraseFrequencies(v) ==
    IF ~IsArray(v) THEN Obj(<<>>) ELSE Obj(ForEachFold(<<>>, v.items))

---------------------------------------------------------------------------
(* generateWordCloudData *)

\* Object.entries(phraseCount).map(([value, count]) => ({ value, count }))
Entries(v) ==
    IF v.t = "array"
    THEN [k \in 1..Len(v.items) |-> [value |-> <<ToString(k - 1)>>, count |-> v.items[k]]]
    ELSE IF v.t = "object" THEN v.entries
    ELSE <<>>

\* Variant of SortDesc: a sort that is not stable (equal counts come out in
\* reverse order).
SortDescUnstable(seq) ==
    LET n == Len(seq)
        pos == [k \in 1..n |->
                  1 + Cardinality({j \in 1..n :
                          \/ seq[j].count > seq[k].count
                          \/ seq[j].count = seq[k].count /\ j > k})]
    IN  [p \in 1..n |-> seq[CHOOSE k \in 1..n : pos[k] = p]]

\* Variant of SortDesc: the comparator swapped, (a, b) => a.count - b.count.
SortAsc(seq) ==
    LET n == Len(seq)
        pos == [k \in 1..n |->
                  1 + Cardinality({j \in 1..n :
                          \/ seq[j].count < seq[k].count
                          \/ seq[j].count = seq[k].count /\ j < k})]
    IN  [p \in 1..n |-> seq[CHOOSE k \in 1..n : pos[k] = p]]

\* Array.prototype.sort((a, b) => b.count - a.count): the sort is stable, so
\* an element is preceded by the elements of larger count and by the earlier
\* elements of equal count.
SortDesc(seq) ==
    LET n == Len(seq)
        pos == [k \in 1..n |->
                  1 + Cardinality({j \in 1..n :
                          \/ seq[j].count > seq[k].count
                          \/ seq[j].count = seq[k].count /\ j < k})]
    IN  [p \in 1..n |-> seq[CHOOSE k \in 1..n : pos[k] = p]]

\* Variant of SliceEnd: no parameter default, so an omitted limit is
\* slice(0, undefined), the whole array.
SliceEndNoDefault(len, lim) ==
    CASE lim.t = "undefined" -> len
      [] lim.t = "number" -> IF lim.n < 0 THEN Max(len + lim.n, 0) ELSE Min(lim.n, len)
      [] OTHER -> 0

\* The end index of slice(0, limit) on an array of length len, with the
\* parameter default (limit = 50) applied to an omitted limit.
SliceEnd(len, lim) ==
    CASE lim.t = "undefined" -> Min(DefaultLimit, len)
      [] lim.t = "number" -> IF lim.n < 0 THEN Max(len + lim.n, 0) ELSE Min(lim.n, len)
      [] OTHER -> 0

GenerateWordCloudData(v, lim) ==
    IF Falsy(v) \/ TypeOf(v) # "object" THEN <<>>
    ELSE LET sorted == SortDesc(Entries(v))
         IN  SubSeq(sorted, 1, SliceEnd(Len(sorted), lim))

\* Variant of ProcessTextsReturn: the limit is not passed on.
ProcessTextsReturnDefaultLimit(freq, lim) == GenerateWordCloudData(freq, Undefined)

\* processTextsToWordCloud: return generateWordCloudData(frequencies, limit)
ProcessTextsReturn(freq, lim) == GenerateWordCloudData(freq, lim)

---------------------------------------------------------------------------
(* Inputs *)

TextPool ==
    { Str(<<"Digital", " ", "skills", " ", "training">>),
      Str(<<"digital", " ", "skills", " ", "and", " ", "Digital", " ", "skills">>),
      Str(<<"providing", " ", "training">>),
      Str(<<"Acme">>),
      Str(<<"digital", "\t", "skills">>),
      Str(<<"Reading", " ", "and", " ", "US">>),
      Str(<<Unprocessable>>),
      Str(<<>>),
      Null,
      Undefined,
      Num(123) }

SeqsUpTo(S, n) == UNION {[1..m -> S] : m \in 0..n}

NotArrays == {Null, Undefined, Num(123), Str(<<"not", " ", "an", " ", "array">>)}

TextsArgs == {Arr(s) : s \in SeqsUpTo(TextPool, MaxTexts)} \cup NotArrays

Limits ==
    {Undefined, Null, NaN, Str(<<"ten">>), Num(DefaultLimit)}
        \cup {Num(n) : n \in (0 - MaxLimit)..MaxLimit}

KeyPool == <<"low", "high", "medium", "digital", "skills", "support">>

Keys == {KeyPool[k] : k \in 1..Min(MaxEntries, Len(KeyPool))}

\* Every map of at most MaxEntries entries, in every insertion order.
SmallMaps ==
    UNION {{[k \in 1..n |-> [value |-> <<ks[k]>>, count |-> ws[k]]] :
                ks \in {f \in [1..n -> Keys] : \A a, b \in 1..n : f[a] = f[b] => a = b},
                ws \in [1..n -> 1..MaxWeight]} : n \in 0..Min(MaxEntries, Len(KeyPool))}

\* frequencies[`phrase${i}`] = i, and the same keys with weights that tie.
BigMap(n, m) ==
    [k \in 1..n |-> [value |-> <<"phrase" \o ToString(k - 1)>>,
                     count |-> IF m = 0 THEN k - 1 ELSE ((k - 1) % m) + 1]]

BigMaps ==
    {BigMap(n, m) : n \in {DefaultLimit - 1, DefaultLimit, DefaultLimit + 1},
                    m \in {0, MaxWeight}}

NotMaps ==
    {Null, Undefined, Num(123), Num(0), Str(<<>>),
     Str(<<"not", " ", "an", " ", "object">>), Arr(<<>>), Arr(<<5, 10, 8>>)}

RankArgs == {Obj(e) : e \in SmallMaps \cup BigMaps} \cup NotMaps

---------------------------------------------------------------------------
(* processTextsToWordCloud(texts, limit) as a state machine *)

Init ==
    /\ texts \in TextsArgs
    /\ i = 0
    /\ phraseCount = <<>>
    /\ frequencies = Undefined
    /\ limit = Undefined
    /\ result = Undefined
    /\ pc = "call"
    /\ args = <<>>
    /\ ret = Undefined
    /\ ProviderInit

\* countPhraseFrequencies is entered: a non-array returns {} at once.
CountPhraseFrequenciesCall ==
    /\ pc = "call"
    /\ IF ~IsArray(texts)
       THEN /\ frequencies' = Obj(<<>>)
            /\ pc' = "counted"
            /\ UNCHANGED <<i, phraseCount>>
       ELSE /\ phraseCount' = <<>>
            /\ i' = 1
            /\ pc' = "forEach"
            /\ UNCHANGED frequencies
    /\ UNCHANGED <<texts, limit, result, args, ret>>
    /\ UNCHANGED providerVars

\* One call of the forEach callback that returns.
ForEachText ==
    /\ pc = "forEach"
    /\ i <= Len(texts.items)
    /\ ~BodyThrows(texts.items[i])
    /\ phraseCount' = ForEachBody(phraseCount, texts.items[i])
    /\ i' = NextIndex(i, texts.items[i])
    /\ UNCHANGED <<texts, frequencies, limit, result, pc, args, ret>>
    /\ UNCHANGED providerVars

\* One call of the forEach callback in which nlp(text) throws: nothing
\* catches it, so it leaves forEach, countPhraseFrequencies and the caller.
ForEachThrow ==
    /\ pc = "forEach"
    /\ i <= Len(texts.items)
    /\ BodyThrows(texts.items[i])
    /\ pc' = "thrown"
    /\ UNCHANGED <<texts, i, phraseCount, frequencies, limit, result, args, ret>>
    /\ UNCHANGED providerVars

\* return phraseCount
CountPhraseFrequenciesReturn ==
    /\ pc = "forEach"
    /\ i > Len(texts.items)
    /\ frequencies' = Obj(phraseCount)
    /\ pc' = "counted"
    /\ UNCHANGED <<texts, i, phraseCount, limit, result, args, ret>>
    /\ UNCHANGED providerVars

\* generateWordCloudData(frequencies, limit) is called and returns.
GenerateWordCloudDataCall ==
    /\ pc = "counted"
    /\ \E lim \in Limits :
          /\ limit' = lim
          /\ result' = ProcessTextsReturn(frequencies, lim)
    /\ pc' = "done"
    /\ UNCHANGED <<texts, i, phraseCount, frequencies, args, ret>>
    /\ UNCHANGED providerVars

Next ==
    \/ CountPhraseFrequenciesCall
    \/ ForEachText
    \/ ForEachThrow
    \/ CountPhraseFrequenciesReturn
    \/ GenerateWordCloudDataCall

Spec == Init /\ [][Next]_vars

---------------------------------------------------------------------------
(* generateWordCloudData(phraseCount, limit) called directly *)

InitRank ==
    /\ texts = Undefined
    /\ i = 0
    /\ phraseCount = <<>>
    /\ frequencies \in RankArgs
    /\ limit = Undefined
    /\ result = Undefined
    /\ pc = "counted"
    /\ args = <<>>
    /\ ret = Undefined
    /\ ProviderInit

NextRank == GenerateWordCloudDataCall

SpecRank == InitRank /\ [][NextRank]_vars

---------------------------------------------------------------------------
(* extractPhrases(text) and isSignificantPhrase(phrase) called on their own *)

MaxPad == 1

\* Stop words in other letter cases.
CasedStopWords == {"The", "THE", "AND", "US", "Digital", "DIGITAL", "Support", "SUPPORT"}

Pads == SeqsUpTo(Whitespace, MaxPad)

\* Every stop word, of either list, in each of its letter cases and with
\* whitespace around it.
StopWordPhrases ==
    {Str(lead \o <<w>> \o trail) :
        lead \in Pads, trail \in Pads,
        w \in COMMON_WORDS \cup DOMAIN_WORDS \cup CasedStopWords}

PhrasePool ==
    { Str(<<"digital", " ", "skills">>),
      Str(<<"Digital", " ", "Skills">>),
      Str(<<"DIGITAL", " ", "SKILLS">>),
      Str(<<"digital", "\t", "skills">>),
      Str(<<"providing", " ", "training">>),
      Str(<<"skills">>),
      Str(<<"Acme">>),
      Str(<<"acme">>),
      Str(<<"Reading">>),
      Str(<<"reading">>),
      Str(<<"the", " ", "skills">>),
      Str(<<"very", " ", "quickly">>) }

PhraseArgs ==
    StopWordPhrases
        \cup {Str(lead \o p.s \o trail) : lead \in Pads, trail \in Pads, p \in PhrasePool}
        \cup {Str(pad) : pad \in Pads}
        \cup (TextPool \ {Str(<<>>)})
        \cup {Null, Undefined, Num(123), Num(0), Obj(<<>>), Arr(<<>>), Bool(FALSE)}

InitPhrase ==
    /\ texts = Undefined
    /\ i = 0
    /\ phraseCount = <<>>
    /\ frequencies = Undefined
    /\ limit = Undefined
    /\ result = Undefined
    /\ pc = "idle"
    /\ args \in {<<v>> : v \in PhraseArgs}
    /\ ret = Undefined
    /\ ProviderInit

\* Whether nlp() is reached by extractPhrases(text) and throws.
ExtractPhrasesThrows(text) == BodyThrows(text)

\* Whether nlp(normalized) is reached by isSignificantPhrase(phrase) and throws.
IsSignificantThrows(phrase) ==
    /\ ~Falsy(phrase)
    /\ TypeOf(phrase) = "string"
    /\ ~IsCommonWord(Trim(ToLowerCase(phrase.s)))
    /\ NlpThrows(Trim(ToLowerCase(phrase.s)))

\* extractPhrases(text) is called and returns.
ExtractPhrasesCall ==
    /\ pc = "idle"
    /\ ~ExtractPhrasesThrows(args[1])
    /\ ret' = Arr(ExtractPhrases(args[1]))
    /\ pc' = "extracted"
    /\ UNCHANGED <<texts, i, phraseCount, frequencies, limit, result, args>>
    /\ UNCHANGED providerVars

\* isSignificantPhrase(phrase) is called and returns.
IsSignificantPhraseCall ==
    /\ pc = "idle"
    /\ ~IsSignificantThrows(args[1])
    /\ ret' = IsSignificant(args[1])
    /\ pc' = "judged"
    /\ UNCHANGED <<texts, i, phraseCount, frequencies, limit, result, args>>
    /\ UNCHANGED providerVars

\* Either function is called and nlp() throws out of it.
PhraseCallThrow ==
    /\ pc = "idle"
    /\ \/ ExtractPhrasesThrows(args[1]) /\ ret' = Str(<<"extractPhrases">>)
       \/ IsSignificantThrows(args[1]) /\ ret' = Str(<<"isSignificantPhrase">>)
    /\ pc' = "thrown"
    /\ UNCHANGED <<texts, i, phraseCount, frequencies, limit, result, args>>
    /\ UNCHANGED providerVars

NextPhrase ==
    \/ ExtractPhrasesCall
    \/ IsSignificantPhraseCall
    \/ PhraseCallThrow

SpecPhrase == InitPhrase /\ [][NextPhrase]_vars

---------------------------------------------------------------------------
(* extractDistrict (src/utils/postcodeExtractor.js).  A postcode is a string *)
(* of characters: one-character tokens.                                      *)

LowerLetters ==
    <<"a", "b", "c", "d", "e", "f", "g", "h", "i", "j", "k", "l", "m",
      "n", "o", "p", "q", "r", "s", "t", "u", "v", "w", "x", "y", "z">>

UpperLetters ==
    <<"A", "B", "C", "D", "E", "F", "G", "H", "I", "J", "K", "L", "M",
      "N", "O", "P", "Q", "R", "S", "T", "U", "V", "W", "X", "Y", "Z">>

Digits == {"0", "1", "2", "3", "4", "5", "6", "7", "8", "9"}

ToUpperChar(c) ==
    IF \E k \in 1..Len(LowerLetters) : LowerLetters[k] = c
    THEN UpperLetters[CHOOSE k \in 1..Len(LowerLetters) : LowerLetters[k] = c]
    ELSE c

\* String.prototype.toUpperCase, character by character
ToUpperCase(s) == [k \in 1..Len(s) |-> ToUpperChar(s[k])]

\* [A-Z]
IsUpperLetter(c) == \E k \in 1..Len(UpperLetters) : UpperLetters[k] = c

\* \d
IsDigit(c) == c \in Digits

\* The ways /^[A-Z]{1,2}\d{1,2}[A-Z]?/ can match, as <<letters, digits,
\* letters>> counts, in the order a backtracking matcher with greedy
\* quantifiers tries them.
DistrictTries ==
    << <<2, 2, 1>>, <<2, 2, 0>>, <<2, 1, 1>>, <<2, 1, 0>>,
       <<1, 2, 1>>, <<1, 2, 0>>, <<1, 1, 1>>, <<1, 1, 0>> >>

\* Whether the string starts with try[1] letters, try[2] digits, try[3] letters.
Fits(u, try) ==
    /\ Len(u) >= try[1] + try[2] + try[3]
    /\ \A k \in 1..try[1] : IsUpperLetter(u[k])
    /\ \A k \in (try[1] + 1)..(try[1] + try[2]) : IsDigit(u[k])
    /\ \A k \in (try[1] + try[2] + 1)..(try[1] + try[2] + try[3]) : IsUpperLetter(u[k])

\* match[0] of the first try of the list that fits, Null when none does.
FirstFit(u, tries) ==
    LET fit == {k \in 1..Len(tries) : Fits(u, tries[k])}
    IN  IF fit = {} THEN Null
        ELSE LET try == tries[CHOOSE k \in fit : \A j \in fit : k <= j]
             IN  Str(SubSeq(u, 1, try[1] + try[2] + try[3]))

\* Variant of DistrictMatch: lazy quantifiers, /^[A-Z]{1,2}?\d{1,2}?[A-Z]??/.
DistrictMatchLazy(u) ==
    FirstFit(u, [k \in 1..Len(DistrictTries) |-> DistrictTries[Len(DistrictTries) + 1 - k]])

\* u.match(/^[A-Z]{1,2}\d{1,2}[A-Z]?/): match[0], or Null.
DistrictMatch(u) == FirstFit(u, DistrictTries)

\* Variant of ExtractDistrict: postcode.toUpperCase().match(...), no trim.
ExtractDistrictNoTrim(postcode) ==
    IF Falsy(postcode) \/ TypeOf(postcode) # "string" THEN Null
    ELSE DistrictMatch(ToUpperCase(postcode.s))

\* Variant of ExtractDistrict: the letters of the match are returned (the
\* area code), not the whole match.
ExtractDistrictAreaOnly(postcode) ==
    IF Falsy(postcode) \/ TypeOf(postcode) # "string" THEN Null
    ELSE LET m == DistrictMatch(ToUpperCase(Trim(postcode.s)))
         IN  IF m.t = "null" THEN Null
             ELSE Str(SelectSeq(m.s, IsUpperLetter))

\* extractDistrict(postcode)
ExtractDistrict(postcode) ==
    IF Falsy(postcode) \/ TypeOf(postcode) # "string" THEN Null
    ELSE DistrictMatch(ToUpperCase(Trim(postcode.s)))

MaxLen == 5

Alphabet == {"N", "e", "1", "6", " ", "-"}

\* The postcodes of the tests, and the same with tabs for spaces.
TestPostcodes ==
    { Str(<<"N", "E", "1", " ", "4", "S", "T">>),
      Str(<<"T", "S", "1", "6", " ", "1", "A", "A">>),
      Str(<<"S", "W", "1", "A", " ", "1", "A", "A">>),
      Str(<<"N", "E", "1", "4", "S", "T">>),
      Str(<<"T", "S", "1", "6", "1", "A", "A">>),
      Str(<<"n", "e", "1", " ", "4", "s", "t">>),
      Str(<<"N", "e", "1", " ", "4", "S", "t">>),
      Str(<<" ", " ", "N", "E", "1", " ", "4", "S", "T", " ", " ">>),
      Str(<<"\t", "N", "E", "1", "\t", "4", "S", "T", "\t">>),
      Str(<<"T", "S", "1", "6", " ", " ", "1", "A", "A">>),
      Str(<<"I", "N", "V", "A", "L", "I", "D">>),
      Str(<<"1", "2", "3">>),
      Str(<<"A", "B">>) }

\* Districts by name.
NE1 == Str(<<"N", "E", "1">>)

NE2 == Str(<<"N", "E", "2">>)

TS1 == Str(<<"T", "S", "1">>)

TS16 == Str(<<"T", "S", "1", "6">>)

DistrictArgs ==
    {Str(s) : s \in SeqsUpTo(Alphabet, MaxLen)}
        \cup TestPostcodes
        \cup {Null, Undefined, Num(123), Obj(<<>>), Arr(<<>>)}

InitDistrict ==
    /\ texts = Undefined
    /\ i = 0
    /\ phraseCount = <<>>
    /\ frequencies = Undefined
    /\ limit = Undefined
    /\ result = Undefined
    /\ pc = "idle"
    /\ args \in {<<v>> : v \in DistrictArgs}
    /\ ret = Undefined
    /\ ProviderInit

\* extractDistrict(postcode) is called and returns.
ExtractDistrictCall ==
    /\ pc = "idle"
    /\ ret' = ExtractDistrict(args[1])
    /\ pc' = "district"
    /\ UNCHANGED <<texts, i, phraseCount, frequencies, limit, result, args>>
    /\ UNCHANGED providerVars

\* extractDistrict is called on the district it returned.
ExtractDistrictAgain ==
    /\ pc = "district"
    /\ ret.t # "null"
    /\ args' = <<ret>>
    /\ ret' = ExtractDistrict(ret)
    /\ pc' = "district of district"
    /\ UNCHANGED <<texts, i, phraseCount, frequencies, limit, result>>
    /\ UNCHANGED providerVars

NextDistrict ==
    \/ ExtractDistrictCall
    \/ ExtractDistrictAgain

SpecDistrict == InitDistrict /\ [][NextDistrict]_vars

---------------------------------------------------------------------------
(* generateWordCloud (src/components/WordCloud/WordCloudPanel.jsx).  A      *)
(* record (a parsed CSV row, dataState, a DATA_SOURCES entry) is a function  *)
(* from its field names to values.                                           *)

\* item[field]
Get(item, field) == IF field \in DOMAIN item THEN item[field] ELSE Undefined

\* a === b, for the values compared here
StrictEquals(a, b) ==
    /\ a.t = b.t
    /\ a.t = "string" => a.s = b.s
    /\ a.t = "number" => a.n = b.n

\* array.includes(v)
Includes(items, v) == \E k \in 1..Len(items) : StrictEquals(items[k], v)

DATA_SOURCES ==
    << [id |-> "services", textField |-> "text_summary",
        postcodeField |-> "postcode", stateKey |-> "servicesData"],
       [id |-> "feedback", textField |-> "feedback_text",
        postcodeField |-> "postcode", stateKey |-> "feedbackData"] >>

\* The panel's own list: the same hundred words as COMMON_WORDS.
commonWords == COMMON_WORDS

\* The panel's own isSignificantPhrase(phrase): no guard, no normalisation.
PanelIsSignificantPhrase(phrase) ==
    /\ ~(Len(phrase) = 1 /\ phrase[1] \in commonWords)
    /\ \E k \in 1..Len(Patterns) : Found(Patterns[k], phrase)

\* const phrases = [...four out('array') lists]: as matched, duplicates kept.
MatchedPhrases(s) ==
    OutArray(s, Match(Patterns[1], s)) \o OutArray(s, Match(Patterns[2], s))
        \o OutArray(s, Match(Patterns[3], s)) \o OutArray(s, Match(Patterns[4], s))

\* phrases.forEach(phrase => { const normalized = phrase.toLowerCase(); ... })
RECURSIVE PanelForEachPhrase(_, _)
PanelForEachPhrase(entries, phrases) ==
    IF phrases = <<>> THEN entries
    ELSE LET phrase == Head(phrases)
             normalized == ToLowerCase(phrase)
         IN  PanelForEachPhrase(
                IF PanelIsSignificantPhrase(normalized)
                THEN AddWeight(entries, normalized, Weight(phrase))
                ELSE entries,
                Tail(phrases))

\* texts.forEach(text => { const doc = nlp(text); ... })
RECURSIVE PanelForEachText(_, _)
PanelForEachText(entries, items) ==
    IF items = <<>> THEN entries
    ELSE PanelForEachText(PanelForEachPhrase(entries, MatchedPhrases(Head(items).s)),
                          Tail(items))

\* .slice(0, 50)
PanelLimit == 50

\* The part of generateWordCloud after the filter on the selection: the
\* texts of the records, the phrase counts, the ranking.
CloudOfRecords(source, records) ==
    LET fields == [k \in 1..Len(records) |-> Get(records[k], source.textField)]
        textsOf == SelectSeq(fields, LAMBDA text : ~Falsy(text))
        sorted == SortDesc(PanelForEachText(<<>>, textsOf))
    IN  SubSeq(sorted, 1, Min(PanelLimit, Len(sorted)))

\* data.filter(item => selectedAreas.includes(item[source.postcodeField]))
FilteredData(source, data, selectedAreas) ==
    SelectSeq(data.items,
              LAMBDA item : Includes(selectedAreas.items, Get(item, source.postcodeField)))

\* generateWordCloud(source, dataState, selectedAreas)
GenerateWordCloud(source, dataState, selectedAreas) ==
    LET data == Get(dataState, source.stateKey)
    IN  IF Falsy(data) THEN <<>>
        ELSE CloudOfRecords(source, FilteredData(source, data, selectedAreas))

MaxRecords == 2

ServiceRecords ==
    {[service_name |-> Str(<<"Test", " ", "Hub">>), postcode |-> p, text_summary |-> t] :
        p \in {NE1, Str(<<"N", "E", "1", " ", "4", "S", "T">>), Str(<<"n", "e", "1">>)},
        t \in {Str(<<"Digital", " ", "skills", " ", "training">>),
               Str(<<"providing", " ", "training">>)}}
    \cup {[service_name |-> Str(<<"Tech", " ", "Center">>), postcode |-> TS16,
            text_summary |-> Str(<<"Digital", " ", "skills", " ", "training">>)],
          [service_name |-> Str(<<"Tech", " ", "Center">>), postcode |-> NE1,
            text_summary |-> Str(<<>>)],
          [service_name |-> Str(<<"Tech", " ", "Center">>),
            text_summary |-> Str(<<"providing", " ", "training">>)],
          [service_name |-> Str(<<"Tech", " ", "Center">>), postcode |-> NE1]}

FeedbackLists ==
    { <<>>,
      <<[service_name |-> Str(<<"Test", " ", "Hub">>), postcode |-> NE1,
         feedback_text |-> Str(<<"providing", " ", "training">>)]>>,
      <<[service_name |-> Str(<<"Test", " ", "Hub">>),
         postcode |-> Str(<<"N", "E", "1", " ", "4", "S", "T">>),
         feedback_text |-> Str(<<"Digital", " ", "skills", " ", "training">>)]>>,
      <<[service_name |-> Str(<<"Tech", " ", "Center">>), postcode |-> NE1,
         feedback_text |-> Str(<<"digital", " ", "skills", " ", "and", " ",
                                 "Digital", " ", "skills">>)]>> }

\* dataState: {} before the data is loaded, then the parsed rows of both files.
DataStates ==
    {<<>>} \cup
    {[servicesData |-> Arr(s), feedbackData |-> Arr(f)] :
        s \in SeqsUpTo(ServiceRecords, MaxRecords), f \in FeedbackLists}

\* selectedAreas: names of map areas, none twice.
SelectedAreasArgs ==
    {Arr(<<>>), Arr(<<NE1>>), Arr(<<TS16>>), Arr(<<NE1, TS16>>), Arr(<<TS16, NE1>>)}

InitCloud ==
    /\ texts = Undefined
    /\ i = 0
    /\ phraseCount = <<>>
    /\ frequencies = Undefined
    /\ limit = Undefined
    /\ result = Undefined
    /\ pc = "idle"
    /\ args \in {<<DATA_SOURCES[k], d, a>> :
                    k \in 1..Len(DATA_SOURCES), d \in DataStates, a \in SelectedAreasArgs}
    /\ ret = Undefined
    /\ ProviderInit

\* generateWordCloud(source, dataState, selectedAreas) is called and returns.
GenerateWordCloudCall ==
    /\ pc = "idle"
    /\ ret' = Arr(GenerateWordCloud(args[1], args[2], args[3]))
    /\ pc' = "cloud"
    /\ UNCHANGED <<texts, i, phraseCount, frequencies, limit, result, args>>
    /\ UNCHANGED providerVars

NextCloud == GenerateWordCloudCall

SpecCloud == InitCloud /\ [][NextCloud]_vars

---------------------------------------------------------------------------
(* extractUniquePostcodes and groupDistrictsByArea                           *)
(* (src/utils/postcodeExtractor.js).  A Set is the sequence of its elements  *)
(* in insertion order.                                                       *)

SetOf(items) == [t |-> "set", items |-> items]

\* Variant of SetAdd: an array's push, the element added whether present or not.
SetAddPush(items, v) == Append(items, v)

\* set.add(v)
SetAdd(items, v) == IF Includes(items, v) THEN items ELSE Append(items, v)

\* The name of the field read: postcodeField = 'postcode' when omitted.
PostcodeFieldName(postcodeField) ==
    IF postcodeField.t = "undefined" THEN "postcode" ELSE postcodeField.s[1]

\* data.forEach(item => { const district = extractDistrict(...); ... })
RECURSIVE ForEachItem(_, _, _)
ForEachItem(postcodeDistricts, items, field) ==
    IF items = <<>> THEN postcodeDistricts
    ELSE LET district == ExtractDistrict(Get(Head(items), field))
         IN  ForEachItem(IF Falsy(district) THEN postcodeDistricts
                         ELSE SetAdd(postcodeDistricts, district),
                         Tail(items), field)

\* null and undefined: reading a property of either is a TypeError.
IsNullish(v) == "t" \in DOMAIN v /\ v.t \in {"null", "undefined"}

\* item[postcodeField] inside the forEach raises for an element that is null
\* or undefined; nothing in the function catches it.
ExtractUniquePostcodesThrows(data) ==
    /\ IsArray(data)
    /\ \E k \in 1..Len(data.items) : IsNullish(data.items[k])

\* extractUniquePostcodes(data, postcodeField)
ExtractUniquePostcodes(data, postcodeField) ==
    IF ~IsArray(data) THEN SetOf(<<>>)
    ELSE SetOf(ForEachItem(<<>>, data.items, PostcodeFieldName(postcodeField)))

\* [A-Z] under the i flag
IsLetter(c) == IsUpperLetter(ToUpperChar(c))

\* district.match(/^[A-Z]{1,2}/i): the length of match[0], 0 for no match.
AreaMatch(district) ==
    IF Len(district) >= 2 /\ IsLetter(district[1]) /\ IsLetter(district[2]) THEN 2
    ELSE IF Len(district) >= 1 /\ IsLetter(district[1]) THEN 1
    ELSE 0

\* if (!acc[areaCode]) acc[areaCode] = new Set(); acc[areaCode].add(district)
AddToArea(acc, areaCode, district) ==
    IF \E k \in 1..Len(acc) : acc[k].area = areaCode
    THEN [k \in 1..Len(acc) |->
            IF acc[k].area = areaCode
            THEN [acc[k] EXCEPT !.districts = SetOf(SetAdd(@.items, district))]
            ELSE acc[k]]
    ELSE Append(acc, [area |-> areaCode, districts |-> SetOf(<<district>>)])

\* districtArray.reduce((acc, district) => ..., {})
RECURSIVE Reduce(_, _)
Reduce(acc, districtArray) ==
    IF districtArray = <<>> THEN acc
    ELSE LET district == Head(districtArray)
             n == AreaMatch(district.s)
         IN  Reduce(IF n > 0
                    THEN AddToArea(acc, ToUpperCase(SubSeq(district.s, 1, n)), district)
                    ELSE acc,
                    Tail(districtArray))

\* Array.from(districts): the elements of an array or a Set, the characters
\* of a string, nothing for any other value that is not null or undefined.
ArrayFrom(districts) ==
    CASE districts.t \in {"array", "set"} -> districts.items
      [] districts.t = "string" ->
            [k \in 1..Len(districts.s) |-> Str(<<districts.s[k]>>)]
      [] OTHER -> <<>>

\* Array.from(null) and Array.from(undefined) raise; district.match raises
\* for an element that is not a string (null, undefined, a number).
GroupDistrictsByAreaThrows(districts) ==
    \/ IsNullish(districts)
    \/ \E k \in 1..Len(ArrayFrom(districts)) :
           TypeOf(ArrayFrom(districts)[k]) # "string"

\* groupDistrictsByArea(districts): the area codes in property order, each
\* with its Set.
GroupDistrictsByArea(districts) == Obj(Reduce(<<>>, ArrayFrom(districts)))

PostcodeRecords ==
    { [postcode |-> Str(<<"N", "E", "1", " ", "4", "S", "T">>)],
      [postcode |-> Str(<<"N", "E", "1", " ", "5", "A", "A">>)],
      [postcode |-> Str(<<"n", "e", "1", " ", "4", "s", "t">>)],
      [postcode |-> Str(<<"T", "S", "1", "6", " ", "1", "A", "A">>)],
      [postcode |-> Str(<<"I", "N", "V", "A", "L", "I", "D">>)],
      [postcode |-> Str(<<>>)],
      [postcode |-> Null],
      [name |-> Str(<<"Test">>)],
      [location |-> Str(<<"N", "E", "1", " ", "4", "S", "T">>)],
      [location |-> Str(<<"T", "S", "1", "6", " ", "1", "A", "A">>),
       postcode |-> Str(<<"N", "E", "2", " ", "1", "A", "A">>)] }

MaxItems == 3

UniqueArgs ==
    {<<d, f>> :
        d \in {Arr(items) : items \in SeqsUpTo(PostcodeRecords, MaxItems)}
              \cup {Null, Undefined, Str(<<"not an array">>)}
              \cup {Arr(<<Null>>), Arr(<<Num(5)>>),
                    Arr(<<[postcode |-> Str(<<"N", "E", "1", " ", "4", "S", "T">>)],
                          Undefined>>)},
        f \in {Undefined, Str(<<"postcode">>), Str(<<"location">>)}}

MaxDistricts == 3

DistrictPool ==
    {NE1, NE2, TS1, TS16, Str(<<"n", "e", "1">>), Str(<<"t", "s", "1">>),
     Str(<<"E", "1">>), Str(<<"N", "1", "6">>), Str(<<"1", "2", "3">>)}

\* Arrays of districts, and Sets of districts (no element twice).
GroupArgs ==
    {<<Arr(items)>> : items \in SeqsUpTo(DistrictPool, MaxDistricts)}
        \cup {<<SetOf(items)>> :
                 items \in {seq \in SeqsUpTo(DistrictPool, MaxDistricts) :
                               \A j, k \in 1..Len(seq) : seq[j] = seq[k] => j = k}}
        \cup {<<Null>>, <<Undefined>>, <<Arr(<<Null>>)>>, <<Arr(<<NE1, Num(5)>>)>>}

InitPostcodes ==
    /\ texts = Undefined
    /\ i = 0
    /\ phraseCount = <<>>
    /\ frequencies = Undefined
    /\ limit = Undefined
    /\ result = Undefined
    /\ pc \in {"extractUniquePostcodes", "groupDistrictsByArea"}
    /\ args \in IF pc = "extractUniquePostcodes" THEN UniqueArgs ELSE GroupArgs
    /\ ret = Undefined
    /\ ProviderInit

\* extractUniquePostcodes(data, postcodeField) is called and returns.
ExtractUniquePostcodesCall ==
    /\ pc = "extractUniquePostcodes"
    /\ ~ExtractUniquePostcodesThrows(args[1])
    /\ ret' = ExtractUniquePostcodes(args[1], args[2])
    /\ pc' = "unique"
    /\ UNCHANGED <<texts, i, phraseCount, frequencies, limit, result, args>>
    /\ UNCHANGED providerVars

\* groupDistrictsByArea(districts) is called and returns.
GroupDistrictsByAreaCall ==
    /\ pc = "groupDistrictsByArea"
    /\ ~GroupDistrictsByAreaThrows(args[1])
    /\ ret' = GroupDistrictsByArea(args[1])
    /\ pc' = "grouped"
    /\ UNCHANGED <<texts, i, phraseCount, frequencies, limit, result, args>>
    /\ UNCHANGED providerVars

\* The TypeError raised inside either function leaves it: the call has no
\* result, ret names the function that raised.
PostcodesCallThrow ==
    /\ \/ /\ pc = "extractUniquePostcodes"
          /\ ExtractUniquePostcodesThrows(args[1])
          /\ ret' = Str(<<"extractUniquePostcodes">>)
       \/ /\ pc = "groupDistrictsByArea"
          /\ GroupDistrictsByAreaThrows(args[1])
          /\ ret' = Str(<<"groupDistrictsByArea">>)
    /\ pc' = "thrown"
    /\ UNCHANGED <<texts, i, phraseCount, frequencies, limit, result, args>>
    /\ UNCHANGED providerVars

NextPostcodes ==
    \/ ExtractUniquePostcodesCall
    \/ GroupDistrictsByAreaCall
    \/ PostcodesCallThrow

SpecPostcodes == InitPostcodes /\ [][NextPostcodes]_vars

---------------------------------------------------------------------------
(* MapDataProvider (src/contexts/MapDataContext.jsx).  An action object is   *)
(* a record with its type and, where it has one, its payload; the function   *)
(* that toggleAreaSelection hands to dispatch is the record of type          *)
(* "function" holding the area name it closes over.  dispatch puts an action *)
(* on the queue; the next render runs the reducer over the queue in dispatch *)
(* order and the components then see the new state.                          *)

\* Variant of ToggleUpdater: an area that is not selected is put first.
ToggleUpdaterPrepend(currentState, areaName) ==
    LET currentAreas == IF IsArray(currentState.selectedAreas)
                        THEN currentState.selectedAreas.items
                        ELSE <<>>
        newAreas == IF ~Includes(currentAreas, areaName)
                    THEN <<areaName>> \o currentAreas
                    ELSE SelectSeq(currentAreas,
                                   LAMBDA area : ~StrictEquals(area, areaName))
    IN  [type |-> "SET_SELECTED_AREAS", payload |-> Arr(newAreas)]

\* The function dispatched by toggleAreaSelection, applied to the state the
\* reducer hands it: the SET_SELECTED_AREAS action it returns.
ToggleUpdater(currentState, areaName) ==
    LET currentAreas == IF IsArray(currentState.selectedAreas)
                        THEN currentState.selectedAreas.items
                        ELSE <<>>
        newAreas == IF ~Includes(currentAreas, areaName)
                    THEN Append(currentAreas, areaName)
                    ELSE SelectSeq(currentAreas,
                                   LAMBDA area : ~StrictEquals(area, areaName))
    IN  [type |-> "SET_SELECTED_AREAS", payload |-> Arr(newAreas)]

\* Variant of SetSelectedAreas: the payload stored as it is given.
SetSelectedAreasAsGiven(payload) == payload

\* selectedAreas: Array.isArray(action.payload) ? [...action.payload] : []
SetSelectedAreas(payload) ==
    IF IsArray(payload) THEN Arr(payload.items) ELSE Arr(<<>>)

\* Variant of ClearedState: the whole state reset to the initial one.
ClearedStateInitial(s) == initialState

\* case CLEAR_SELECTIONS: return { ...state, selectedAreas: [] }
ClearedState(s) == [s EXCEPT !.selectedAreas = Arr(<<>>)]

\* mapDataReducer(state, action)
mapDataReducer(s, action) ==
    LET a == IF action.type = "function"
             THEN ToggleUpdater(s, action.areaName)
             ELSE action
    IN  CASE a.type = "SET_DATA_STATE" -> [s EXCEPT !.dataState = a.payload]
          [] a.type = "SET_GEOJSON" -> [s EXCEPT !.postcodeGeoJSON = a.payload]
          [] a.type = "SET_SELECTED_AREAS" ->
                [s EXCEPT !.selectedAreas = SetSelectedAreas(a.payload)]
          [] a.type = "CLEAR_SELECTIONS" -> ClearedState(s)
          [] a.type = "SET_FOCUSED_AREA" -> [s EXCEPT !.focusedArea = a.payload]
          [] a.type = "SET_DATA_LOADED" -> [s EXCEPT !.dataLoaded = a.payload]
          [] a.type = "TOGGLE_KEYBOARD_HELP" ->
                [s EXCEPT !.showKeyboardHelp = Bool(~s.showKeyboardHelp.b)]
          [] a.type = "SET_ACTIVE_TAB" -> [s EXCEPT !.activeTab = a.payload]
          [] OTHER -> s

\* The reducer's cases for the two drill-down fields.
ngramReducer(n, action) ==
    CASE action.type = "SET_SELECTED_NGRAM" -> [n EXCEPT !.selectedNgram = action.payload]
      [] action.type = "SET_NGRAM_DATA" -> [n EXCEPT !.ngramData = action.payload]
      [] OTHER -> n

\* The reducer run over the queued actions, first dispatched first.
RECURSIVE ReduceQueue(_, _)
ReduceQueue(s, actions) ==
    IF actions = <<>> THEN s
    ELSE ReduceQueue(mapDataReducer(s, Head(actions)), Tail(actions))

RECURSIVE ReduceNgramQueue(_, _)
ReduceNgramQueue(n, actions) ==
    IF actions = <<>> THEN n
    ELSE ReduceNgramQueue(ngramReducer(n, Head(actions)), Tail(actions))

\* Variant of ToggleDispatched: the action creator of the file's first
\* definition, which computes the new list from the state of the last render
\* (areaName is kept on the action to tell which call dispatched it).
ToggleDispatchedFromClosure(renderedState, areaName) ==
    [type |-> "SET_SELECTED_AREAS",
     areaName |-> areaName,
     payload |-> Arr(IF Includes(renderedState.selectedAreas.items, areaName)
                     THEN SelectSeq(renderedState.selectedAreas.items,
                                    LAMBDA a : ~StrictEquals(a, areaName))
                     ELSE Append(renderedState.selectedAreas.items, areaName))]

\* What actions.toggleAreaSelection(areaName) hands to dispatch: a function
\* of the current state, which does not read the rendered state.
ToggleDispatched(renderedState, areaName) ==
    [type |-> "function", areaName |-> areaName]

\* How many actions may wait for one render.
MaxQueue == 3

Dispatch(action) == queue' = Append(queue, action)

\* The names of the areas on the map.
AreaNames == {NE1, NE2, TS1}

\* A render: the queued actions are reduced in order and the result is the
\* state every component and action creator sees from now on.
Render ==
    /\ queue # <<>>
    /\ state' = ReduceQueue(state, queue)
    /\ ngram' = ReduceNgramQueue(ngram, queue)
    /\ queue' = <<>>
    /\ UNCHANGED <<load, log>>
    /\ UNCHANGED utilVars

\* actions.toggleAreaSelection(areaName): a click on a map area.
ToggleAreaSelection ==
    /\ Len(queue) < MaxQueue
    /\ \E areaName \in AreaNames : Dispatch(ToggleDispatched(state, areaName))
    /\ UNCHANGED <<state, ngram, load, log>>
    /\ UNCHANGED utilVars

\* actions.clearSelections()
ClearSelections ==
    /\ Len(queue) < MaxQueue
    /\ Dispatch([type |-> "CLEAR_SELECTIONS"])
    /\ UNCHANGED <<state, ngram, load, log>>
    /\ UNCHANGED utilVars

\* actions.setFocusedArea(areaName): focus moves to a map area or leaves it.
SetFocusedArea ==
    /\ Len(queue) < MaxQueue
    /\ \E areaName \in {NE1, Null} :
          /\ areaName # state.focusedArea
          /\ Dispatch([type |-> "SET_FOCUSED_AREA", payload |-> areaName])
    /\ UNCHANGED <<state, ngram, load, log>>
    /\ UNCHANGED utilVars

\* handleKeyDown(e): Ctrl+/ toggles the help, Escape clears the selection,
\* Enter or Space on a focused map path toggles its area, any other key and
\* Enter with no path focused do nothing.
KeyDown ==
    /\ Len(queue) < MaxQueue
    /\ \E key \in {"Ctrl+/", "Escape", "Enter", " "} :
          CASE key = "Ctrl+/" -> Dispatch([type |-> "TOGGLE_KEYBOARD_HELP"])
            [] key = "Escape" -> Dispatch([type |-> "CLEAR_SELECTIONS"])
            [] OTHER ->
                  /\ state.dataLoaded.b
                  /\ state.focusedArea # Null
                  /\ Dispatch(ToggleDispatched(state, state.focusedArea))
    /\ UNCHANGED <<state, ngram, load, log>>
    /\ UNCHANGED utilVars

---------------------------------------------------------------------------
(* The loadData effect of MapDataProvider: loadCSV for every data source,    *)
(* then loadGeoJSON.  What a fetch, a response and a parse do is the         *)
(* environment's choice.                                                     *)

LoadOutcomes == {"fetch rejected", "response not ok", "parse error", "parsed"}

\* Rows as Papa.parse returns them for the two files.
ParsedRows ==
    [servicesData |->
        { <<>>,
          <<[service_name |-> Str(<<"Test", " ", "Hub">>),
             postcode |-> Str(<<"N", "E", "1", " ", "4", "S", "T">>),
             text_summary |-> Str(<<"Digital", " ", "skills", " ", "training">>)]>>,
          <<[service_name |-> Str(<<"Test", " ", "Hub">>),
             postcode |-> Str(<<"S", "W", "1", "A", " ", "1", "A", "A">>),
             text_summary |-> Str(<<"providing", " ", "training">>)],
            [service_name |-> Str(<<"Tech", " ", "Center">>),
             postcode |-> Str(<<" ", "N", "E", "1", " ", "4", "S", "T">>),
             text_summary |-> Str(<<"Digital", " ", "skills", " ", "training">>)]>> },
     feedbackData |->
        { <<>>,
          <<[service_name |-> Str(<<"Test", " ", "Hub">>),
             postcode |-> Str(<<"t", "s", "1", "6", " ", "1", "A", "A">>),
             feedback_text |-> Str(<<"providing", " ", "training">>)]>> }]

\* loadCSV(source): resolved with { [stateKey]: rows }, with { [stateKey]: [] }
\* when the fetch is rejected or the response is not ok (the catch), and
\* rejected when the parse reports an error.
LoadCSV(source, outcome, rows) ==
    CASE outcome = "parsed" ->
            [settled |-> "resolved", value |-> (source.stateKey :> Arr(rows))]
      [] outcome = "parse error" -> [settled |-> "rejected"]
      [] OTHER -> [settled |-> "resolved", value |-> (source.stateKey :> Arr(<<>>))]

\* results.reduce((acc, curr) => ({ ...acc, ...curr }), {})
RECURSIVE CombinedData(_, _)
CombinedData(acc, results) ==
    IF results = <<>> THEN acc
    ELSE CombinedData(Head(results).value @@ acc, Tail(results))

\* The ways /^[A-Z]{1,2}\d{1,2}/ can match, greedy tries first.
HelperTries == << <<2, 2, 0>>, <<2, 1, 0>>, <<1, 2, 0>>, <<1, 1, 0>> >>

\* loadGeoJSON's own extractDistrict(postcode): postcode.match(/.../i), the
\* match in upper case; for strings and falsy values.
HelperExtractDistrict(postcode) ==
    IF Falsy(postcode) THEN Null
    ELSE FirstFit(ToUpperCase(postcode.s), HelperTries)

\* dataState.<key>.forEach(item => { district = extractDistrict(item.postcode); ... })
RECURSIVE HelperForEach(_, _)
HelperForEach(postcodeDistricts, items) ==
    IF items = <<>> THEN postcodeDistricts
    ELSE LET district == HelperExtractDistrict(Get(Head(items), "postcode"))
         IN  HelperForEach(IF Falsy(district) THEN postcodeDistricts
                           ELSE SetAdd(postcodeDistricts, district),
                           Tail(items))

\* uniqueDistricts: the districts of servicesData, then those of feedbackData.
UniqueDistricts(dataState) ==
    LET services == Get(dataState, "servicesData")
        feedback == Get(dataState, "feedbackData")
        first == IF Falsy(services) THEN <<>> ELSE HelperForEach(<<>>, services.items)
    IN  IF Falsy(feedback) THEN first ELSE HelperForEach(first, feedback.items)

\* areaGroups = uniqueDistricts.reduce(...)
RECURSIVE AreaGroups(_, _)
AreaGroups(acc, uniqueDistricts) ==
    IF uniqueDistricts = <<>> THEN acc
    ELSE LET district == Head(uniqueDistricts)
             areaCode == ToUpperCase(SubSeq(district.s, 1, AreaMatch(district.s)))
         IN  AreaGroups(AddToArea(acc, areaCode, district), Tail(uniqueDistricts))

FeatureCollection(features) == [type |-> "FeatureCollection", features |-> features]

\* The features of the areas whose file was fetched: for each such area the
\* features named after one of its districts, areas in group order.
RECURSIVE CombinedFeatures(_, _)
CombinedFeatures(groups, fetched) ==
    IF groups = <<>> THEN <<>>
    ELSE (IF Head(groups).area \in fetched THEN Head(groups).districts.items ELSE <<>>)
            \o CombinedFeatures(Tail(groups), fetched)

\* Variant of LoadFailed: the loadData of the file's first definition, which
\* has no try/catch: the rejection leaves the effect and nothing is dispatched.
LoadFailedUncaught == <<>>

\* catch (error) { dispatch({ type: SET_DATA_LOADED, payload: true }) }
LoadFailed == <<[type |-> "SET_DATA_LOADED", payload |-> Bool(TRUE)]>>

\* loadGeoJSON's locals when it starts its fetches: uniqueDistricts, and
\* areaGroups unless it threw for want of a district.
GeoJSONLocals(l, combinedData) ==
    LET uniqueDistricts == UniqueDistricts(combinedData)
    IN  [l EXCEPT !.pc = "geojson",
                  !.combinedData = combinedData,
                  !.uniqueDistricts = Arr(uniqueDistricts),
                  !.areaGroups = IF uniqueDistricts = <<>> THEN Undefined
                                 ELSE Obj(AreaGroups(<<>>, uniqueDistricts))]

\* The effect runs after the first render: dispatch SET_DATA_LOADED false and
\* start loadCSV for every source.
LoadDataStart ==
    /\ load.pc = "mount"
    /\ Dispatch([type |-> "SET_DATA_LOADED", payload |-> Bool(FALSE)])
    /\ load' = [load EXCEPT !.pc = "csv"]
    /\ UNCHANGED <<state, ngram, log>>
    /\ UNCHANGED utilVars

\* await Promise.all(dataPromises) is settled: the catch when a loadCSV was
\* rejected; otherwise SET_DATA_STATE with the combined data and the call of
\* loadGeoJSON, which runs up to its fetches.
LoadCSVSettle ==
    /\ load.pc = "csv"
    /\ \E outcomes \in [1..Len(DATA_SOURCES) -> LoadOutcomes] :
       \E services \in ParsedRows.servicesData, feedback \in ParsedRows.feedbackData :
          LET rows == [servicesData |-> services, feedbackData |-> feedback]
              results == [k \in 1..Len(DATA_SOURCES) |->
                            LoadCSV(DATA_SOURCES[k], outcomes[k],
                                    rows[DATA_SOURCES[k].stateKey])]
          IN  IF \E k \in 1..Len(results) : results[k].settled = "rejected"
              THEN /\ queue' = queue \o LoadFailed
                   /\ load' = [load EXCEPT !.pc = "done", !.error = TRUE]
              ELSE /\ Dispatch([type |-> "SET_DATA_STATE",
                                payload |-> CombinedData(<<>>, results)])
                   /\ load' = GeoJSONLocals(load, CombinedData(<<>>, results))
    /\ UNCHANGED <<state, ngram, log>>
    /\ UNCHANGED utilVars

\* The area codes loadGeoJSON fetches a file for.
AreaCodes(areaGroups) ==
    IF areaGroups = Undefined THEN {}
    ELSE {areaGroups.entries[k].area : k \in 1..Len(areaGroups.entries)}

\* loadGeoJSON's fetches are settled: SET_GEOJSON with the features found,
\* or with none when there was no district or there is no feature (both
\* throw into the catch, which dispatches it).
LoadGeoJSON ==
    /\ load.pc = "geojson"
    /\ \E fetched \in SUBSET AreaCodes(load.areaGroups) :
          Dispatch([type |-> "SET_GEOJSON",
                    payload |-> FeatureCollection(
                                   IF load.areaGroups = Undefined THEN <<>>
                                   ELSE CombinedFeatures(load.areaGroups.entries, fetched))])
    /\ load' = [load EXCEPT !.pc = "geojson loaded"]
    /\ UNCHANGED <<state, ngram, log>>
    /\ UNCHANGED utilVars

\* After await loadGeoJSON(...): dispatch SET_DATA_LOADED true.
LoadDataFinish ==
    /\ load.pc = "geojson loaded"
    /\ Dispatch([type |-> "SET_DATA_LOADED", payload |-> Bool(TRUE)])
    /\ load' = [load EXCEPT !.pc = "done"]
    /\ UNCHANGED <<state, ngram, log>>
    /\ UNCHANGED utilVars

InitLoad ==
    /\ texts = Undefined
    /\ i = 0
    /\ phraseCount = <<>>
    /\ frequencies = Undefined
    /\ limit = Undefined
    /\ result = Undefined
    /\ pc = "provider"
    /\ args = <<>>
    /\ ret = Undefined
    /\ ProviderInit

NextLoad ==
    \/ LoadDataStart
    \/ LoadCSVSettle
    \/ LoadGeoJSON
    \/ LoadDataFinish
    \/ KeyDown
    \/ Render

\* The effect is run after the mount, every promise it awaits is settled,
\* and a render follows every dispatch.
SpecLoad ==
    /\ InitLoad
    /\ [][NextLoad]_vars
    /\ WF_vars(LoadDataStart)
    /\ WF_vars(LoadCSVSettle)
    /\ WF_vars(LoadGeoJSON)
    /\ WF_vars(LoadDataFinish)
    /\ WF_vars(Render)

---------------------------------------------------------------------------
(* The provider after loading: the selection of map areas *)

Tabs == {Str(<<"selections">>), Str(<<"wordcloud">>)}

\* The provider once loadData has ended: with every fetch rejected (both
\* files empty, no district, an empty FeatureCollection), and with a parse
\* error (nothing but dataLoaded set).
LoadedProviders ==
    LET empty == [servicesData |-> Arr(<<>>), feedbackData |-> Arr(<<>>)]
    IN  { [state |-> [initialState EXCEPT !.dataState = empty,
                                          !.postcodeGeoJSON = FeatureCollection(<<>>),
                                          !.dataLoaded = Bool(TRUE)],
           load |-> [GeoJSONLocals(initialLoad, empty) EXCEPT !.pc = "done"]],
          [state |-> [initialState EXCEPT !.dataLoaded = Bool(TRUE)],
           load |-> [initialLoad EXCEPT !.pc = "done", !.error = TRUE]] }

InitSelection ==
    /\ texts = Undefined
    /\ i = 0
    /\ phraseCount = <<>>
    /\ frequencies = Undefined
    /\ limit = Undefined
    /\ result = Undefined
    /\ pc = "provider"
    /\ args = <<>>
    /\ ret = Undefined
    /\ \E p \in LoadedProviders, tab \in Tabs :
          /\ state = [p.state EXCEPT !.activeTab = tab]
          /\ load = p.load
    /\ ngram = initialNgramState
    /\ queue = <<>>
    /\ log = Undefined

NextSelection ==
    \/ ToggleAreaSelection
    \/ ClearSelections
    \/ SetFocusedArea
    \/ KeyDown
    \/ Render

SpecSelection == InitSelection /\ [][NextSelection]_vars

---------------------------------------------------------------------------
(* mapDataReducer driven directly: any of the actions that set the          *)
(* selection, with any payload, dispatched and reduced.                      *)

SelectionPayloads == {Null, NE1, Arr(<<NE1, NE1>>), Arr(<<NE2, NE1>>)}

SelectionActions ==
    {[type |-> "function", areaName |-> a] : a \in AreaNames}
        \cup {[type |-> "CLEAR_SELECTIONS"]}
        \cup {[type |-> "SET_SELECTED_AREAS", payload |-> p] : p \in SelectionPayloads}

\* dispatch(action)
DispatchSelectionAction ==
    /\ Len(queue) < MaxQueue
    /\ \E action \in SelectionActions : Dispatch(action)
    /\ UNCHANGED <<state, ngram, load, log>>
    /\ UNCHANGED utilVars

NextReducer ==
    \/ DispatchSelectionAction
    \/ Render

SpecReducer == InitSelection /\ [][NextReducer]_vars

---------------------------------------------------------------------------
(* The drill-down: the word clouds' onClick (WordCloudPanel.jsx), the panel  *)
(* NgramDataPanel and the two action creators it calls.                      *)

\* Variant of NgramDataPanel: nothing is rendered for an empty list either.
NgramDataPanelNeedsItems(n) ==
    IF Falsy(n.selectedNgram) \/ Falsy(n.ngramData) THEN Null
    ELSE IF IsArray(n.ngramData) /\ Len(n.ngramData.items) > 0
         THEN [title |-> n.selectedNgram, body |-> "items"]
         ELSE Null

\* What NgramDataPanel renders: null, or the panel with its title and either
\* the items or 'No matching data found'.
NgramDataPanel(n) ==
    IF Falsy(n.selectedNgram) \/ Falsy(n.ngramData) THEN Null
    ELSE [title |-> n.selectedNgram,
          body |-> IF IsArray(n.ngramData) /\ Len(n.ngramData.items) > 0
                   THEN "items"
                   ELSE "No matching data found"]

\* The phrases and the data the setters are called with.
NgramPhrases == {Str(<<"digital", " ", "skills">>), Null}

NgramDataArgs ==
    { Null,
      Arr(<<>>),
      Arr(<<[service_name |-> Str(<<"Test", " ", "Service">>), postcode |-> NE1,
             text_summary |-> Str(<<"Digital", " ", "skills", " ", "training">>),
             sourceField |-> Str(<<"text_summary">>)]>>),
      Obj(<<"phrase", "occurrences">>) }

\* actions.setSelectedNgram(phrase)
SetSelectedNgram ==
    /\ Len(queue) < MaxQueue
    /\ \E phrase \in NgramPhrases :
          Dispatch([type |-> "SET_SELECTED_NGRAM", payload |-> phrase])
    /\ UNCHANGED <<state, ngram, load, log>>
    /\ UNCHANGED utilVars

\* actions.setNgramData(data)
SetNgramData ==
    /\ Len(queue) < MaxQueue
    /\ \E data \in NgramDataArgs :
          Dispatch([type |-> "SET_NGRAM_DATA", payload |-> data])
    /\ UNCHANGED <<state, ngram, load, log>>
    /\ UNCHANGED utilVars

\* Either close button of the panel: setSelectedNgram(null), setNgramData(null).
ClosePanel ==
    /\ NgramDataPanel(ngram) # Null
    /\ Len(queue) + 2 <= MaxQueue
    /\ queue' = queue \o <<[type |-> "SET_SELECTED_NGRAM", payload |-> Null],
                           [type |-> "SET_NGRAM_DATA", payload |-> Null]>>
    /\ UNCHANGED <<state, ngram, load, log>>
    /\ UNCHANGED utilVars

\* A click on a tag of one of the word clouds: onClick writes the tag to the
\* console.
WordClick ==
    /\ \E k \in 1..Len(DATA_SOURCES) :
          LET words == GenerateWordCloud(DATA_SOURCES[k], state.dataState,
                                         state.selectedAreas)
          IN  \E j \in 1..Len(words) : log' = words[j]
    /\ UNCHANGED <<state, ngram, queue, load>>
    /\ UNCHANGED utilVars

\* The rows of both files as loaded, and the provider once they are loaded
\* and areas are selected on the map.
DrillDataState ==
    [servicesData |->
        Arr(<<[service_name |-> Str(<<"Test", " ", "Hub">>), postcode |-> NE1,
               text_summary |-> Str(<<"Digital", " ", "skills", " ", "training">>)],
              [service_name |-> Str(<<"Tech", " ", "Center">>), postcode |-> TS16,
               text_summary |-> Str(<<"Digital", " ", "skills", " ", "training">>)]>>),
     feedbackData |->
        Arr(<<[service_name |-> Str(<<"Test", " ", "Hub">>), postcode |-> NE1,
               feedback_text |-> Str(<<"providing", " ", "training">>)]>>)]

DrillProviders ==
    {[state |-> [initialState EXCEPT !.dataState = DrillDataState,
                                     !.postcodeGeoJSON = FeatureCollection(<<NE1, TS16>>),
                                     !.selectedAreas = a,
                                     !.activeTab = Str(<<"wordcloud">>),
                                     !.dataLoaded = Bool(TRUE)],
      load |-> [GeoJSONLocals(initialLoad, DrillDataState) EXCEPT !.pc = "done"]] :
        a \in {Arr(<<NE1>>), Arr(<<NE1, TS16>>)}}

InitDrill ==
    /\ texts = Undefined
    /\ i = 0
    /\ phraseCount = <<>>
    /\ frequencies = Undefined
    /\ limit = Undefined
    /\ result = Undefined
    /\ pc = "provider"
    /\ args = <<>>
    /\ ret = Undefined
    /\ \E p \in DrillProviders :
          /\ state = p.state
          /\ load = p.load
    /\ ngram = initialNgramState
    /\ queue = <<>>
    /\ log = Undefined

NextDrill ==
    \/ WordClick
    \/ SetSelectedNgram
    \/ SetNgramData
    \/ ClosePanel
    \/ Render

SpecDrill == InitDrill /\ [][NextDrill]_vars

---------------------------------------------------------------------------
(* Vocabulary of the properties *)

Range(f) == {f[k] : k \in DOMAIN f}

RECURSIVE SumOver(_, _)
SumOver(f, n) == IF n = 0 THEN 0 ELSE f[n] + SumOver(f, n - 1)

\* The places where the tagger finds something in a string: the spans of the
\* four phrase classes, each place once.
Spans(s) == UNION {Range(Match(Patterns[k], s)) : k \in 1..Len(Patterns)}

\* How often a phrase occurs in one text: the places whose lower-cased
\* substring is the phrase.
Occurrences(phrase, text) ==
    IF Falsy(text) \/ TypeOf(text) # "string" THEN 0
    ELSE Cardinality({sp \in Spans(text.s) :
                         ToLowerCase(SubSeq(text.s, sp[1], sp[2])) = phrase})

TotalOccurrences(phrase, items) ==
    SumOver([k \in 1..Len(items) |-> Occurrences(phrase, items[k])], Len(items))

TextsContaining(phrase, items) ==
    Cardinality({k \in 1..Len(items) : Occurrences(phrase, items[k]) > 0})

\* Every phrase the tagger finds somewhere in the texts.
PhrasesOf(items) ==
    UNION {IF Falsy(items[k]) \/ TypeOf(items[k]) # "string" THEN {}
           ELSE {ToLowerCase(SubSeq(items[k].s, sp[1], sp[2])) : sp \in Spans(items[k].s)} :
           k \in 1..Len(items)}

\* countPhraseFrequencies has returned the map of an array of texts.
Counted == pc = "counted" /\ IsArray(texts)

---------------------------------------------------------------------------
(* C1: countPhraseFrequencies accumulates weights additively. *)

---------------------------------------------------------------------------
(* C2: the weight of one counted occurrence. *)

\* C2 as stated: every counted occurrence adds 2 when the phrase has an
\* interior whitespace character and 1 when it is a single word, and only
\* significant phrases are added.
C2_WeightByInteriorWhitespace ==
    Counted =>
        \A e \in Range(frequencies.entries) :
            /\ IsSignificantPhrase(e.value)
            /\ e.count = WeightAnyWhitespace(e.value) * TextsContaining(e.value, texts.items)

---------------------------------------------------------------------------
(* C3: the order of equal weights. *)

\* Where a phrase was first inserted: the first text whose phrases hold it,
\* and its place among that text's phrases.
FirstText(phrase, items) ==
    LET holds == {k \in 1..Len(items) : phrase \in Range(ExtractPhrases(items[k]))}
    IN  CHOOSE k \in holds : \A m \in holds : k <= m

PlaceIn(phrase, text) ==
    LET phrases == ExtractPhrases(text)
    IN  CHOOSE k \in 1..Len(phrases) : phrases[k] = phrase

InsertedBefore(a, b, items) ==
    LET ta == FirstText(a, items)
        tb == FirstText(b, items)
    IN  \/ ta < tb
        \/ ta = tb /\ PlaceIn(a, items[ta]) < PlaceIn(b, items[tb])

\* C3: whenever two entries of the ranked result have the same weight, the
\* one whose phrase was inserted earlier during text processing comes first.
C3_TiesKeepInsertionOrder ==
    (pc = "done" /\ IsArray(texts)) =>
        \A p, q \in 1..Len(result) :
            (p < q /\ result[p].count = result[q].count) =>
                InsertedBefore(result[p].value, result[q].value, texts.items)

\* A ranked result with a tie between phrases of different texts, below a
\* heavier phrase that was inserted after them.
C3_TieRanked ==
    /\ pc = "done"
    /\ IsArray(texts)
    /\ \E p, q \in 1..Len(result) :
          /\ 1 < p
          /\ p < q
          /\ result[p].count = result[q].count
          /\ FirstText(result[p].value, texts.items) < FirstText(result[q].value, texts.items)
          /\ InsertedBefore(result[p].value, result[1].value, texts.items)

---------------------------------------------------------------------------
(* C4..C7: generateWordCloudData *)

IsMap(v) == v.t = "object"

\* C4: the result is sorted by weight in non-increasing order, every returned
\* pair is an entry of the map, no phrase appears twice, and no omitted entry
\* has a larger weight than a returned one.
C4_SortedByWeightDescending ==
    (pc = "done" /\ IsMap(frequencies)) =>
        /\ \A p \in 1..(Len(result) - 1) : result[p].count >= result[p + 1].count
        /\ \A p \in 1..Len(result) : result[p] \in Range(frequencies.entries)
        /\ \A p, q \in 1..Len(result) : result[p].value = result[q].value => p = q
        /\ \A e \in Range(frequencies.entries) :
              e \notin Range(result) => \A p \in 1..Len(result) : e.count <= result[p].count

\* A map that is not in rank order, ranked and cut short.
C4_UnsortedMapRanked ==
    /\ pc = "done"
    /\ IsMap(frequencies)
    /\ Len(result) >= 2
    /\ Len(result) < Len(frequencies.entries)
    /\ frequencies.entries[1].count < frequencies.entries[2].count

\* C5: a map of n entries gives exactly min(limit, n) entries for a limit > 0
\* and exactly min(50, n) entries when the limit is omitted.
C5_ExactlyMinLimitEntries ==
    (pc = "done" /\ IsMap(frequencies)) =>
        /\ (limit.t = "number" /\ limit.n > 0) =>
              Len(result) = Min(limit.n, Len(frequencies.entries))
        /\ limit.t = "undefined" =>
              Len(result) = Min(50, Len(frequencies.entries))

\* A map of more than 50 entries ranked with the limit omitted.
C5_DefaultLimitCuts ==
    /\ pc = "done"
    /\ IsMap(frequencies)
    /\ limit.t = "undefined"
    /\ Len(frequencies.entries) > 50
    /\ Len(result) = 50

\* The limit is no count of entries: not a number, or NaN.
Malformed(lim) == lim.t \in {"null", "NaN", "string"}

\* C6 as stated: the result is empty whenever the limit is zero, negative or
\* malformed, whatever the map holds.
C6_NonPositiveLimitGivesNothing ==
    (pc = "done" /\ ((limit.t = "number" /\ limit.n <= 0) \/ Malformed(limit))) =>
        result = <<>>

\* C7 as stated: the result is empty for every input that is not a
\* phrase-to-weight map, arrays included.
C7_NonMapGivesNothing ==
    (pc = "done" /\ ~IsMap(frequencies)) => result = <<>>

---------------------------------------------------------------------------
(* C8..C10: the texts of a batch *)

\* The texts that are not null, undefined or the empty string.
RemoveFalsy(items) ==
    SelectSeq(items, LAMBDA text : text \notin {Null, Undefined, Str(<<>>)})

\* C8: null, undefined and empty texts are skipped without effect: the map
\* of a sequence of texts is the map of the sequence with them removed.
C8_FalsyTextsSkipped ==
    Counted => frequencies = CountPhraseFrequencies(Arr(RemoveFalsy(texts.items)))

\* A batch in which a skipped entry comes before a text that is counted.
C8_SkippedBeforeCounted ==
    /\ Counted
    /\ \E a, b \in 1..Len(texts.items) :
          /\ a < b
          /\ texts.items[a] \in {Null, Undefined, Str(<<>>)}
          /\ ForEachBody(<<>>, texts.items[b]) # <<>>

\* C9: processTexts(texts, limit) is rankTop(countPhraseFrequencies(texts),
\* limit); a non-array and the empty array count to the empty map, and
\* processTexts([]) is the empty sequence.
C9_ProcessTextsIsComposition ==
    /\ pc = "done" =>
          result = GenerateWordCloudData(CountPhraseFrequencies(texts), limit)
    /\ (pc \in {"counted", "done"} /\ (~IsArray(texts) \/ texts = Arr(<<>>))) =>
          frequencies = Obj(<<>>)
    /\ (pc = "done" /\ texts = Arr(<<>>)) => result = <<>>

\* A pipeline run whose limit cuts the ranked list.
C9_LimitPassedOn ==
    /\ pc = "done"
    /\ IsArray(texts)
    /\ limit = Num(1)
    /\ Len(frequencies.entries) >= 2
    /\ Len(result) = 1

RemoveUnprocessable(items) == SelectSeq(items, LAMBDA text : ~BodyThrows(text))

\* C10 as stated: a text the tagger cannot process contributes no phrases,
\* the remaining texts are still processed, and the failure does not reach
\* the caller.
C10_TaggerFailureIsolated ==
    /\ pc # "thrown"
    /\ Counted => frequencies = CountPhraseFrequencies(Arr(RemoveUnprocessable(texts.items)))

---------------------------------------------------------------------------
(* Stop words and significance *)

StopList == COMMON_WORDS \cup DOMAIN_WORDS

Judged == pc = "judged"

Normalised(s) == Trim(ToLowerCase(s))

\* C12: isSignificantPhrase(p) is false for a non-string or empty p, false
\* when trim(lowercase(p)) is in its stop list, and otherwise true exactly
\* when the tagger, run on trim(lowercase(p)) alone, finds one of the four
\* pattern classes; so p and trim(lowercase(p)) get the same verdict.
C12_VerdictOfNormalisedPhrase ==
    Judged =>
        LET p == args[1]
        IN  IF p.t # "string" \/ p.s = <<>> THEN ret = Bool(FALSE)
            ELSE /\ ret = Bool(/\ ~IsCommonWord(Normalised(p.s))
                               /\ Spans(Normalised(p.s)) # {})
                 /\ ret = IsSignificant(Str(Normalised(p.s)))

\* A phrase in upper case between whitespace is judged significant, and a
\* name whose lower-case form is an ordinary word is judged by that form.
C12_CasedPhraseJudged ==
    /\ Judged
    /\ \/ /\ args[1] = Str(<<" ", "DIGITAL", " ", "SKILLS", " ">>)
          /\ ret = Bool(TRUE)
       \/ /\ args[1] = Str(<<"Reading">>)
          /\ ret = Bool(FALSE)

\* C13: extractPhrases(text) returns no phrase, and does not throw, for an
\* empty, null, undefined or non-string text; for any other text every
\* returned phrase is lower case, none occurs twice, and the phrases are
\* exactly the lower-cased strings of the matches of the four classes.
C13_LowercasedUniqueMatches ==
    LET text == args[1]
        guarded == text.t # "string" \/ text.s = <<>>
    IN  /\ (pc = "thrown" /\ ret = Str(<<"extractPhrases">>)) => ~guarded
        /\ pc = "extracted" =>
              IF guarded THEN ret = Arr(<<>>)
              ELSE LET phrases == ret.items
                   IN  /\ \A k \in 1..Len(phrases) : ToLowerCase(phrases[k]) = phrases[k]
                       /\ \A j, k \in 1..Len(phrases) : phrases[j] = phrases[k] => j = k
                       /\ Range(phrases) =
                             {ToLowerCase(SubSeq(text.s, span[1], span[2])) :
                                 span \in Spans(text.s)}

\* A text in which one phrase occurs in two letter cases has been extracted
\* to a single lower-case phrase.
C13_RepeatedPhraseExtracted ==
    /\ pc = "extracted"
    /\ args[1] = Str(<<"digital", " ", "skills", " ", "and", " ", "Digital", " ", "skills">>)
    /\ ret = Arr(<<<<"digital", " ", "skills">>>>)

\* C14: whatever the texts and the limit, no entry returned by
\* processTextsToWordCloud has a phrase that is exactly a stop word, and
\* every returned phrase is judged significant by isSignificantPhrase.
C14_NoStopWordReturned ==
    pc = "done" =>
        \A k \in 1..Len(result) :
            /\ ~(Len(result[k].value) = 1 /\ result[k].value[1] \in StopList)
            /\ IsSignificant(Str(result[k].value)) = Bool(TRUE)

\* Texts from which the stop word 'us' and the phrase 'digital skills
\* training' are extracted have been processed, and a phrase was returned.
C14_StopWordExtractedAndDropped ==
    /\ pc = "done"
    /\ IsArray(texts)
    /\ \E k \in 1..Len(texts.items) :
          /\ texts.items[k].t = "string"
          /\ <<"us">> \in Range(ExtractPhrases(texts.items[k]))
    /\ \E k \in 1..Len(result) : result[k].value = <<"digital", " ", "skills", " ", "training">>

---------------------------------------------------------------------------
(* Districts *)

\* 1-2 letters, then 1-2 digits, then at most one letter.
IsDistrictShape(p) ==
    \E a \in 1..2, d \in 1..2, l \in 0..1 :
        /\ Len(p) = a + d + l
        /\ \A k \in 1..a : IsUpperLetter(p[k])
        /\ \A k \in (a + 1)..(a + d) : IsDigit(p[k])
        /\ \A k \in (a + d + 1)..Len(p) : IsUpperLetter(p[k])

\* The longest prefix of u of that shape, Null when there is none.
LongestDistrictPrefix(u) ==
    LET lens == {n \in 1..Len(u) : IsDistrictShape(SubSeq(u, 1, n))}
    IN  IF lens = {} THEN Null
        ELSE Str(SubSeq(u, 1, CHOOSE n \in lens : \A m \in lens : m <= n))

\* C15: extractDistrict(s) is null when s is empty or not a string;
\* otherwise it is the match at the start of trim(uppercase(s)) of 1-2
\* letters, 1-2 digits and at most one letter, each taken greedily (the
\* longest such prefix), null when there is none.  'NE14ST' gives 'NE14S',
\* 'TS161AA' gives 'TS16', and a result is a prefix of trim(uppercase(s)).
C15_GreedyLeadingMatch ==
    pc = "district" =>
        LET s == args[1]
        IN  IF s.t # "string" \/ s.s = <<>> THEN ret.t = "null"
            ELSE LET u == Trim(ToUpperCase(s.s))
                 IN  /\ ret = LongestDistrictPrefix(u)
                     /\ ret.t # "null" =>
                            /\ Len(ret.s) <= Len(u)
                            /\ ret.s = SubSeq(u, 1, Len(ret.s))
                     /\ s.s = <<"N", "E", "1", "4", "S", "T">>
                            => ret = Str(<<"N", "E", "1", "4", "S">>)
                     /\ s.s = <<"T", "S", "1", "6", "1", "A", "A">>
                            => ret = Str(<<"T", "S", "1", "6">>)

\* The district of a compact postcode, whose inward part starts with a
\* digit and a letter, has been extracted.
C15_CompactPostcodeExtracted ==
    /\ pc = "district"
    /\ args[1] = Str(<<"N", "E", "1", "4", "S", "T">>)
    /\ ret = Str(<<"N", "E", "1", "4", "S">>)

\* The string without its whitespace.
StripWhitespace(s) == SelectSeq(s, LAMBDA c : c \notin Whitespace)

\* The string with every run of whitespace replaced by one space.
CollapseWhitespace(s) ==
    LET keep == {k \in 1..Len(s) : s[k] \notin Whitespace \/ k = 1 \/ s[k - 1] \notin Whitespace}
        nth(n) == CHOOSE k \in keep : Cardinality({j \in keep : j <= k}) = n
    IN  [n \in 1..Cardinality(keep) |-> IF s[nth(n)] \in Whitespace THEN " " ELSE s[nth(n)]]

\* C16: extractDistrict depends on its input only up to letter case and
\* whitespace: a string and the same string in upper case with its
\* whitespace ignored give the same result.
C16_SameUpToCaseAndWhitespace ==
    (pc = "district" /\ args[1].t = "string") =>
        ret = ExtractDistrict(Str(StripWhitespace(ToUpperCase(args[1].s))))

\* C16, amended: extractDistrict depends on its input only up to letter
\* case, leading and trailing whitespace, and the length and kind of each
\* run of whitespace inside it: a string and the same string upper-cased,
\* trimmed and with every whitespace run made one space give the same
\* result; 'ne1 4st', 'NE1 4ST', 'Ne1 4St' and '  NE1 4ST  ' all give 'NE1'.
C16_SameUpToCaseAndSpacing ==
    (pc = "district" /\ args[1].t = "string") =>
        /\ ret = ExtractDistrict(Str(CollapseWhitespace(Trim(ToUpperCase(args[1].s)))))
        /\ args[1].s \in { <<"n", "e", "1", " ", "4", "s", "t">>,
                            <<"N", "E", "1", " ", "4", "S", "T">>,
                            <<"N", "e", "1", " ", "4", "S", "t">>,
                            <<" ", " ", "N", "E", "1", " ", "4", "S", "T", " ", " ">> }
              => ret = NE1

\* A lower-case postcode between tabs, a tab for its space, has been given.
C16_TabbedPostcodeExtracted ==
    /\ pc = "district"
    /\ args[1] = Str(<<"\t", "N", "E", "1", "\t", "4", "S", "T", "\t">>)
    /\ ret = NE1

\* C17: a district that extractDistrict returned is returned unchanged when
\* extractDistrict is called on it.
C17_DistrictIsFixedPoint ==
    pc = "district of district" => ret = args[1]

\* The district of a compact postcode, which ends with a letter of the
\* inward part, has been given back to extractDistrict.
C17_CompactDistrictExtractedAgain ==
    /\ pc = "district of district"
    /\ args[1] = Str(<<"N", "E", "1", "4", "S">>)
    /\ ret = Str(<<"N", "E", "1", "4", "S">>)

---------------------------------------------------------------------------
(* Selection of records by region *)

\* The records whose district, as extractDistrict gives it, is selected.
FilteredDataByDistrict(source, data, selectedAreas) ==
    SelectSeq(data.items,
              LAMBDA item : Includes(selectedAreas.items,
                                     ExtractDistrict(Get(item, source.postcodeField))))

\* C18: a record contributes its text to a data source's word cloud exactly
\* when the district extracted from its postcode field is one of the
\* selected areas: the cloud is the one computed from the records whose
\* district is selected (so a record with 'NE1 4ST' counts when 'NE1' is
\* selected).
C18_RecordsOfSelectedDistricts ==
    (pc = "cloud" /\ ~Falsy(Get(args[2], args[1].stateKey))) =>
        ret = Arr(CloudOfRecords(args[1],
                    FilteredDataByDistrict(args[1], Get(args[2], args[1].stateKey), args[3])))

\* The area code of a key: its leading letters, two at most, in upper case.
AreaOf(district) == ToUpperCase(SubSeq(district.s, 1, AreaMatch(district.s)))

\* C19: groupDistrictsByArea(ds) has one group for each distinct leading
\* 1-2-letter area code of the keys of ds, keyed by the code in upper case;
\* the keys are upper-cased before grouping, so the members of a group are
\* the upper-cased keys with that area code, two keys that differ only in
\* letter case being one member; empty ds gives the empty mapping.
C19_GroupsOfUppercasedKeys ==
    pc = "grouped" =>
        LET ds == {d \in Range(args[1].items) : AreaMatch(d.s) > 0}
            groups == ret.entries
        IN  /\ {groups[k].area : k \in 1..Len(groups)} = {AreaOf(d) : d \in ds}
            /\ \A j, k \in 1..Len(groups) : groups[j].area = groups[k].area => j = k
            /\ \A k \in 1..Len(groups) :
                  LET members == groups[k].districts.items
                  IN  /\ Range(members) =
                            {Str(ToUpperCase(d.s)) : d \in {e \in ds : AreaOf(e) = groups[k].area}}
                      /\ \A a, b \in 1..Len(members) : members[a] = members[b] => a = b
            /\ args[1].items = <<>> => groups = <<>>

\* C20: extractUniquePostcodes(data, f) returns the set of the non-null
\* extractDistrict(r[f]) over the records r of data, each once; records
\* whose field is missing, empty or invalid add nothing; a non-array gives
\* the empty set.
C20_SetOfDistrictsOfRecords ==
    pc = "unique" =>
        LET field == PostcodeFieldName(args[2])
            districts == ret.items
        IN  /\ ret.t = "set"
            /\ \A j, k \in 1..Len(districts) : districts[j] = districts[k] => j = k
            /\ IF IsArray(args[1])
               THEN Range(districts) =
                       {ExtractDistrict(Get(r, field)) : r \in Range(args[1].items)}
                           \ {Null}
               ELSE districts = <<>>

\* Two records of one district and a record without the field have been
\* given, and the set holds that district alone.
C20_SharedDistrictOnce ==
    /\ pc = "unique"
    /\ IsArray(args[1])
    /\ Len(args[1].items) = 3
    /\ \E j, k \in 1..3 :
          /\ j # k
          /\ ExtractDistrict(Get(args[1].items[j], PostcodeFieldName(args[2]))) = NE1
          /\ ExtractDistrict(Get(args[1].items[k], PostcodeFieldName(args[2]))) = NE1
    /\ \E k \in 1..3 : PostcodeFieldName(args[2]) \notin DOMAIN args[1].items[k]
    /\ ret = SetOf(<<NE1>>)

\* C21: no function raises on invalid input; handed a value that is not a
\* collection, null or undefined, or a collection holding null or non-string
\* elements, extractUniquePostcodes returns the empty set and
\* groupDistrictsByArea the empty mapping.
C21_InvalidInputGivesNeutralResult ==
    /\ pc # "thrown"
    /\ pc = "unique" /\ ~IsArray(args[1]) => ret = SetOf(<<>>)
    /\ pc = "grouped" /\ args[1].items = <<>> => ret = Obj(<<>>)

\* C25: after the mount dataLoaded is set to false, and in every execution,
\* whatever the fetches, the responses and the parses do, it becomes true
\* and from then on stays true.
C25_EventuallyLoadedForGood == <>[](state.dataLoaded = Bool(TRUE))

\* A parse reported an error, the effect has ended in its catch and the
\* rendered state says the data is loaded.
C25_LoadedAfterParseError ==
    /\ load.pc = "done"
    /\ load.error
    /\ queue = <<>>
    /\ state.dataLoaded = Bool(TRUE)

\* The groups of a mapping from area codes to Sets, order set aside.
GroupsOf(obj) ==
    {<<obj.entries[k].area, Range(obj.entries[k].districts.items)>> :
        k \in 1..Len(obj.entries)}

\* The rows of both files that loadGeoJSON was given.
LoadedRows ==
    Get(load.combinedData, "servicesData").items
        \o Get(load.combinedData, "feedbackData").items

\* C30: the districts and the area groups that loadGeoJSON computes with its
\* own helper are those that extractUniquePostcodes and groupDistrictsByArea
\* give for the same rows, whatever the postcodes are.
C30_LoaderAgreesWithUtilities ==
    load.uniqueDistricts # Undefined =>
        LET districts == ExtractUniquePostcodes(Arr(LoadedRows), Undefined)
        IN  /\ Range(load.uniqueDistricts.items) = Range(districts.items)
            /\ GroupsOf(IF load.areaGroups = Undefined THEN Obj(<<>>)
                        ELSE load.areaGroups)
                  = GroupsOf(GroupDistrictsByArea(districts))

\* The texts generateWordCloud counts: the text field of the records of the
\* selected areas, empty and missing ones left out.
SelectedTexts(source, dataState, selectedAreas) ==
    LET data == Get(dataState, source.stateKey)
        records == IF Falsy(data) THEN <<>>
                   ELSE FilteredData(source, data, selectedAreas)
        fields == [k \in 1..Len(records) |-> Get(records[k], source.textField)]
    IN  SelectSeq(fields, LAMBDA text : ~Falsy(text))

\* C29: generateWordCloud returns the ranked list that
\* processTextsToWordCloud(texts, 50) returns for the selected texts, also
\* when a phrase occurs more than once in a text.
C29_PanelAgreesWithPipeline ==
    pc = "cloud" =>
        ret.items =
            ProcessTextsReturn(
                CountPhraseFrequencies(Arr(SelectedTexts(args[1], args[2], args[3]))),
                Num(PanelLimit))

\* What one toggle of area a is to make of a list of areas.
Toggled(list, a) ==
    IF a \in Range(list) THEN SelectSeq(list, LAMBDA b : b # a) ELSE Append(list, a)

RECURSIVE ToggledAll(_, _)
ToggledAll(list, calls) ==
    IF calls = <<>> THEN list ELSE ToggledAll(Toggled(list, Head(calls)), Tail(calls))

\* The queued action was dispatched by a call of toggleAreaSelection.
IsToggleCall(action) == "areaName" \in DOMAIN action

\* The areas of the toggleAreaSelection calls waiting for a render, when
\* nothing else is waiting.
ToggleCalls == [k \in 1..Len(queue) |-> queue[k].areaName]

OnlyToggleCalls ==
    /\ queue # <<>>
    /\ \A k \in 1..Len(queue) : IsToggleCall(queue[k])

\* C23: toggleAreaSelection calls issued back to back before a render all
\* take effect, in call order: the render that follows leaves the selection
\* that toggling the areas one after the other gives, no call being lost.
C23_BatchedTogglesAllTakeEffect ==
    [][OnlyToggleCalls /\ queue' = <<>>
          => state'.selectedAreas = Arr(ToggledAll(state.selectedAreas.items, ToggleCalls))]_vars

\* NE1, NE2 and TS1 have been toggled in one batch on an empty selection.
C23_ThreeTogglesBatched ==
    /\ state.selectedAreas = Arr(<<>>)
    /\ Len(queue) = 3
    /\ OnlyToggleCalls
    /\ ToggleCalls = <<NE1, NE2, TS1>>

\* One area toggled once, or the same area toggled twice in a row, and
\* nothing else, waits for the render.
SameAreaToggled(n) ==
    /\ OnlyToggleCalls
    /\ Len(queue) = n
    /\ \A k \in 1..n : queue[k].areaName = queue[1].areaName

OnlyClears ==
    /\ queue # <<>>
    /\ \A k \in 1..Len(queue) : queue[k].type = "CLEAR_SELECTIONS"

\* C26: clearSelections, the CLEAR_SELECTIONS action and the Escape key set
\* selectedAreas to the empty list from every state and leave every other
\* field of the state unchanged.
C26_ClearEmptiesSelectionOnly ==
    [][OnlyClears /\ queue' = <<>>
          => /\ state'.selectedAreas = Arr(<<>>)
             /\ \A f \in DOMAIN state \ {"selectedAreas"} : state'[f] = state[f]
             /\ ngram' = ngram]_vars

\* A clear waits for the render while areas are selected, an area is
\* focused, the help is shown and the data is loaded.
C26_ClearWaitingOnSelection ==
    /\ OnlyClears
    /\ state.selectedAreas.items # <<>>
    /\ state.focusedArea # Null
    /\ state.showKeyboardHelp = Bool(TRUE)
    /\ state.dataLoaded = Bool(TRUE)

\* An array in which no element occurs twice.
NoAreaTwice(v) ==
    /\ IsArray(v)
    /\ \A j, k \in 1..Len(v.items) : v.items[j] = v.items[k] => j = k

\* C28 as stated: after any sequence of toggleAreaSelection, clearSelections
\* and SET_SELECTED_AREAS actions with any payload, selectedAreas is an array
\* and contains no area more than once.
C28_SelectionIsArrayWithoutRepeats == NoAreaTwice(state.selectedAreas)

\* No SET_SELECTED_AREAS action waiting for the render carries an array in
\* which an area is repeated.
NoRepeatingPayload ==
    \A k \in 1..Len(queue) :
        queue[k].type = "SET_SELECTED_AREAS" /\ IsArray(queue[k].payload)
            => NoAreaTwice(queue[k].payload)

\* C28: selectedAreas is always an array, whatever the payloads are, and
\* an area comes to be in it twice only through a SET_SELECTED_AREAS action
\* whose array payload repeats it, never through toggles, clears or
\* payloads that are not arrays.
C28_RepeatsOnlyFromPayload ==
    [][/\ IsArray(state'.selectedAreas)
       /\ NoAreaTwice(state.selectedAreas) /\ NoRepeatingPayload
             => NoAreaTwice(state'.selectedAreas)]_vars

\* A SET_SELECTED_AREAS action whose payload is not an array waits for the
\* render while an area is selected.
C28_NonArrayPayloadWaiting ==
    /\ state.selectedAreas.items # <<>>
    /\ \E k \in 1..Len(queue) :
          /\ queue[k].type = "SET_SELECTED_AREAS"
          /\ ~IsArray(queue[k].payload)

---------------------------------------------------------------------------
(* The drill-down panel *)

\* The panel is rendered.
PanelShown(n) == NgramDataPanel(n) # Null

\* The two dispatches of a close button.
CloseDispatches ==
    <<[type |-> "SET_SELECTED_NGRAM", payload |-> Null],
      [type |-> "SET_NGRAM_DATA", payload |-> Null]>>

\* In every state: the panel is shown exactly when neither value is null,
\* and with an empty list it reads 'No matching data found'.
PanelShownIffBothSet ==
    /\ PanelShown(ngram) <=> (ngram.selectedNgram # Null /\ ngram.ngramData # Null)
    /\ (ngram.selectedNgram # Null /\ ngram.ngramData = Arr(<<>>)) =>
          /\ PanelShown(ngram)
          /\ NgramDataPanel(ngram).body = "No matching data found"

\* In every render: a single setSelectedNgram or setNgramData stores its
\* value and leaves the other alone, and a close button's two dispatches
\* leave both null and the panel hidden.
SettersStoreAndCloseResets ==
    (queue # <<>> /\ queue' = <<>>) =>
        /\ (Len(queue) = 1 /\ queue[1].type = "SET_SELECTED_NGRAM") =>
              /\ ngram'.selectedNgram = queue[1].payload
              /\ ngram'.ngramData = ngram.ngramData
        /\ (Len(queue) = 1 /\ queue[1].type = "SET_NGRAM_DATA") =>
              /\ ngram'.ngramData = queue[1].payload
              /\ ngram'.selectedNgram = ngram.selectedNgram
        /\ (Len(queue) >= 2 /\ SubSeq(queue, Len(queue) - 1, Len(queue)) = CloseDispatches) =>
              /\ ngram' = [selectedNgram |-> Null, ngramData |-> Null]
              /\ ~PanelShown(ngram')

ContainsPhrase(text, phrase) ==
    LET t == ToLowerCase(text)
        p == ToLowerCase(phrase)
    IN  \E k \in 0..(Len(t) - Len(p)) : SubSeq(t, k + 1, k + Len(p)) = p

DrillDownMatches(source, phrase) ==
    LET data == Get(state.dataState, source.stateKey)
        records == IF Falsy(data) THEN <<>>
                   ELSE FilteredData(source, data, state.selectedAreas)
        matching == SelectSeq(records,
                       LAMBDA item :
                          LET text == Get(item, source.textField)
                          IN  /\ text.t = "string"
                              /\ ContainsPhrase(text.s, phrase))
    IN  [k \in 1..Len(matching) |->
            [f \in DOMAIN matching[k] \cup {"sourceField"} |->
                IF f = "sourceField" THEN Str(<<source.textField>>)
                ELSE matching[k][f]]]

\* C22: a click on a phrase of a data source's word cloud makes selectedNgram
\* that phrase and ngramData the records of that source, in the selected
\* areas and in record order, whose text field contains the phrase as a
\* case-insensitive substring, each annotated with the field that matched.
C22_ClickProducesDrillDown ==
    [][log' # log =>
         \E k \in 1..Len(DATA_SOURCES) :
            /\ \E j \in 1..Len(GenerateWordCloud(DATA_SOURCES[k], state.dataState,
                                                 state.selectedAreas)) :
                  GenerateWordCloud(DATA_SOURCES[k], state.dataState,
                                    state.selectedAreas)[j] = log'
            /\ ReduceNgramQueue(ngram', queue') =
                  [selectedNgram |-> Str(log'.value),
                   ngramData |-> Arr(DrillDownMatches(DATA_SOURCES[k], log'.value))]]_vars


=============================================================================
